---- MODULE Spec2Model ----
(***************************************************************************)
(* pm-link-auto: the link reconciliation run (runLinker) of linker.ts,     *)
(* with the collaborators it drives: the manifest reader, the discovery    *)
(* search, the config patcher, the global registry listing and the         *)
(* package manager's link commands.                                        *)
(***************************************************************************)
EXTENDS Naturals, Sequences, FiniteSets, TLC

VARIABLES
    pm,               \* the detected package manager passed to runLinker
    config,           \* config.packages as loaded (the declared entries)
    configFile,       \* the entries as written in the configuration file
    registry,         \* the package manager's global link table (external)
    pc,               \* where runLinker stands (its next suspension point)
    validEntries,     \* linker.ts: validEntries
    invalidEntries,   \* linker.ts: invalidEntries
    resolvedEntries,  \* linker.ts: resolvedEntries
    foundPaths,       \* nameToPathMap returned by findPackagesInSearchRoot
    patched,          \* how many keys of foundPaths the patch loop has done
    globallyLinked,   \* the Map returned by getGlobalLinkedPackages
    i,                \* index of the entry the linking loop is at
    actions,          \* the branch taken for each processed entry
    log,              \* prompts, searches, patches and commands, in order
    run,              \* "first" or "second" invocation of the tool
    prev,             \* what the first invocation did, once it has ended
    listed,           \* what the registry tree lists, line by line (external)
    lines,            \* getNpmLinkList.ts: lines, the text of the listing
    symlinks,         \* the links under the global node_modules (external)
    lineNo,           \* the line the loop of parseNpmLinkOutput is at
    linkedPackages,   \* getNpmLinkList.ts: linkedPackages
    outcomes,         \* what the loop did with each line it has read
    original,         \* the configuration source before updateConfigFile
    document,         \* the configuration source as the file now holds it
    content,          \* the text of the configuration file
    patchName,        \* the packageName updateConfigFile is called with
    patchPath,        \* the newPath updateConfigFile is called with
    writes,           \* how many times updateConfigFile wrote the file
    calls,            \* how many calls of updateConfigFile have returned
    loaded,           \* what loadConfig came to, if main called it
    exitCode,         \* the exit code of the process, once it has ended
    issued,           \* the operations a run followed await by await has started
    stdout,           \* what 'pnpm list -g --depth=0 --long --json' printed
    pnpmLinked,       \* what getGlobalLinkedPackages('pnpm') came to
    globallyLinkedEarlier  \* the Set the earlier revision's listing returns

linkerVars == <<pm, config, configFile, registry, pc, validEntries,
                invalidEntries, resolvedEntries, foundPaths, patched,
                globallyLinked, i, actions, log, run, prev>>

parserVars == <<listed, lines, symlinks, lineNo, linkedPackages, outcomes>>

patcherVars == <<original, document, content, patchName, patchPath, writes,
                 calls>>

cliVars == <<loaded, exitCode>>

awaitVars == <<issued>>

listingVars == <<stdout, pnpmLinked>>

earlierVars == <<globallyLinkedEarlier>>

vars == <<linkerVars, parserVars, patcherVars, cliVars, awaitVars, listingVars,
          earlierVars>>

(***************************************************************************)
(* Bounds and the small universe of inputs                                 *)
(***************************************************************************)
MaxEntries == 2

Names == {"a", "b"}
NoName == "null"
NoPath == << >>
NotLinked == << >>
PackageManagers == {"npm", "pnpm", "yarn"}

\* Paths are sequences of segments; a leading "/" marks an absolute path.
DirA == <<"/", "w", "a">>
DirA2 == <<"/", "w", "a2">>
DirB == <<"/", "w", "b">>
DirX == <<"/", "w", "x">>
DirU == <<"/", "w", "u">>
DirP == <<"/", "w", "p">>
DirN == <<"/", "w", "n">>
ConfigDir == <<"/", "w", "proj">>


\* The paths the registry may report a name as linked from.
RegPaths == { DirA, <<"/", "w", "b", "..", "a">>, DirA2, DirB }

\* What the glob of the search root may return (traversal order).
GlobResults == { << >>, <<DirA>>, <<DirX, DirB>>, <<DirA, DirA2, DirB>>,
                 <<DirB, DirA2, DirA>> }

\* The entries a configuration may declare: a name with a relative or an
\* absolute path to a directory declaring it, with a path to a directory
\* declaring another name or none, or with no path.
Entries == {
    [name |-> "a", path |-> <<"..", "a">>],
    [name |-> "a", path |-> DirA2],
    [name |-> "a", path |-> <<"..", "x">>],
    [name |-> "a", path |-> NoPath],
    [name |-> "b", path |-> <<"..", "b", ".">>],
    [name |-> "b", path |-> <<"..", "a">>],
    [name |-> "b", path |-> NoPath] }

\* The entries of a configuration whose directories are in every state a
\* manifest can be in: missing, unreadable, not JSON, without a name,
\* declaring another name, declaring the entry's name; or with no path.
ManifestEntries == {
    [name |-> "a", path |-> <<"..", "a">>],
    [name |-> "a", path |-> <<"..", "x">>],
    [name |-> "a", path |-> <<"..", "u">>],
    [name |-> "a", path |-> NoPath],
    [name |-> "b", path |-> <<"..", "b", ".">>],
    [name |-> "b", path |-> <<"..", "p">>],
    [name |-> "b", path |-> <<"..", "n">>],
    [name |-> "b", path |-> <<"..", "a">>] }

SeqsUpTo(S, n) == UNION { [1..k -> S] : k \in 0..n }

(***************************************************************************)
(* node:path                                                               *)
(***************************************************************************)
RECURSIVE NormalizeSegs(_, _)
NormalizeSegs(segs, acc) ==
    IF segs = << >> THEN acc
    ELSE LET s == Head(segs) IN
         IF s = "." THEN NormalizeSegs(Tail(segs), acc)
         ELSE IF s = ".."
              THEN NormalizeSegs(Tail(segs),
                                 IF acc = << >> THEN acc
                                 ELSE SubSeq(acc, 1, Len(acc) - 1))
              ELSE NormalizeSegs(Tail(segs), Append(acc, s))

IsAbsolute(p) == p # << >> /\ Head(p) = "/"

\* path.resolve(base, p): p if absolute, else base joined with p; normalized.
PathResolve(base, p) ==
    IF IsAbsolute(p) THEN <<"/">> \o NormalizeSegs(Tail(p), << >>)
    ELSE <<"/">> \o NormalizeSegs(Tail(base) \o p, << >>)

\* path.resolve(p) of an absolute path.
PathResolve1(p) == PathResolve(<<"/">>, p)

(***************************************************************************)
(* utils.ts                                                                *)
(***************************************************************************)
\* The package.json of a directory: whether the file exists, whether it can
\* be read, whether its text is JSON, and the name it declares ("" for none).
Manifest(exists, readable, parses, name) ==
    [exists |-> exists, readable |-> readable, parses |-> parses, name |-> name]

\* The file system: DirA and DirA2 declare a, DirB declares b, DirU has a
\* manifest that cannot be read, DirP one that is not JSON, DirN one without
\* a name; every other directory has no manifest.
ManifestAt(dir) ==
    IF dir = DirA \/ dir = DirA2 THEN Manifest(TRUE, TRUE, TRUE, "a")
    ELSE IF dir = DirB THEN Manifest(TRUE, TRUE, TRUE, "b")
    ELSE IF dir = DirU THEN Manifest(TRUE, FALSE, FALSE, "")
    ELSE IF dir = DirP THEN Manifest(TRUE, TRUE, FALSE, "")
    ELSE IF dir = DirN THEN Manifest(TRUE, TRUE, TRUE, "")
    ELSE Manifest(FALSE, FALSE, FALSE, "")

\* What a call comes to when an exception leaves it.
Thrown == "throws"

\* The body of the try: existsSync, readFileSync, JSON.parse, name || null.
\* readFileSync and JSON.parse throw.
readPackageName(m) ==
    IF ~m.exists THEN NoName
    ELSE IF ~m.readable THEN Thrown
    ELSE IF ~m.parses THEN Thrown
    ELSE IF m.name = "" THEN NoName
    ELSE m.name

\* (variant: without the catch, what readFileSync or JSON.parse throws
\* leaves the function)
getPackageNameFromPath_NoCatch(packagePath) ==
    readPackageName(ManifestAt(packagePath))

\* getPackageNameFromPath: the name the manifest in the directory declares,
\* null when there is none or it cannot be read (the catch logs and returns
\* null).
getPackageNameFromPath(packagePath) ==
    LET name == readPackageName(ManifestAt(packagePath))
    IN IF name = Thrown THEN NoName ELSE name

\* getLinkCommands(pm)
globalLinkCmd(p) ==
    IF p = "pnpm" THEN <<"pnpm", "link", "--global">>
    ELSE IF p = "yarn" THEN <<"yarn", "link">>
    ELSE <<"npm", "link">>

globalUnlinkCmd(p, name) ==
    IF p = "pnpm" THEN <<"pnpm", "unlink", "--global", name>>
    ELSE IF p = "yarn" THEN <<"yarn", "unlink", name>>
    ELSE <<"npm", "unlink", "--global", name>>

localLinkCmd(p, pkgs) ==
    IF p = "pnpm" THEN <<"pnpm", "link", "--global">> \o pkgs
    ELSE IF p = "yarn" THEN <<"yarn", "link">> \o pkgs
    ELSE <<"npm", "link">> \o pkgs

\* One prompt, search, patch or command of a run, as the collaborators see it:
\* idx is the index in resolvedEntries of the entry it is issued for (0 when
\* it is not for one entry), path the working directory or the new path,
\* cmd the command line, ok whether it succeeded (for a prompt: the answer),
\* names the package names a local-link command lists, dirs the directories
\* a search returned.
Event(op, idx, name, path, cmd, ok) ==
    [op |-> op, idx |-> idx, name |-> name, path |-> path, cmd |-> cmd,
     ok |-> ok, names |-> << >>, dirs |-> << >>]

NoRun == [ran |-> FALSE, listed |-> FALSE, declined |-> FALSE, failed |-> FALSE,
          linked |-> FALSE]

(***************************************************************************)
(* Init: a loaded configuration, a package manager and a registry          *)
(***************************************************************************)
\* A Map with no key.
EmptyMap == [n \in {} |-> << >>]

\* parseNpmLinkOutput has not been called.
ParserIdle ==
    /\ listed = << >>
    /\ lines = << >>
    /\ symlinks = EmptyMap
    /\ lineNo = 1
    /\ linkedPackages = EmptyMap
    /\ outcomes = << >>

\* updateConfigFile has not been called.
PatcherIdle ==
    /\ original = << >>
    /\ document = << >>
    /\ content = << >>
    /\ patchName = NoName
    /\ patchPath = ""
    /\ writes = 0
    /\ calls = 0

\* runLinker was called directly, not from the command line.
CliIdle ==
    /\ loaded = "notCalled"
    /\ exitCode = "none"

\* The operations of the run are not followed one by one.
AwaitIdle == issued = << >>

\* The pnpm branch of getGlobalLinkedPackages has not been called.
NoDocument == [kind |-> "none", elems |-> << >>]
NotReturned == [threw |-> FALSE, map |-> EmptyMap]
ListingIdle == stdout = NoDocument /\ pnpmLinked = NotReturned

\* The earlier revision's listing has not been made.
EarlierIdle == globallyLinkedEarlier = {}

\* What a run starts from: the configuration, the package manager and the
\* registry.
Installation ==
    /\ pm \in PackageManagers
    /\ config \in SeqsUpTo(Entries, MaxEntries)
    /\ configFile = config
    /\ registry \in [Names -> RegPaths \cup {NotLinked}]
    /\ \A n \in Names : registry[n] # NotLinked =>
            getPackageNameFromPath(PathResolve1(registry[n])) = n
    /\ validEntries = << >>
    /\ invalidEntries = << >>
    /\ resolvedEntries = << >>
    /\ foundPaths = << >>
    /\ patched = 0
    /\ globallyLinked = [n \in Names |-> NotLinked]
    /\ i = 1
    /\ actions = << >>
    /\ log = << >>
    /\ run = "first"
    /\ prev = NoRun

Init ==
    /\ ParserIdle
    /\ PatcherIdle
    /\ CliIdle
    /\ AwaitIdle
    /\ ListingIdle
    /\ EarlierIdle
    /\ Installation
    /\ pc = "start"

(***************************************************************************)
(* linker.ts: runLinker, step 1 (validation)                               *)
(***************************************************************************)
absolutePathOf(entry) == PathResolve(ConfigDir, entry.path)

\* (variant: a directory with a manifest is accepted whatever name the
\* manifest declares)
IsValidEntry_NameUnchecked(entry) ==
    /\ entry.path # NoPath
    /\ getPackageNameFromPath(absolutePathOf(entry)) # NoName

\* The test of the validation loop: the entry has a path and the manifest at
\* its absolute path declares the entry's name.
IsValidEntry(entry) ==
    /\ entry.path # NoPath
    /\ getPackageNameFromPath(absolutePathOf(entry)) # NoName
    /\ getPackageNameFromPath(absolutePathOf(entry)) = entry.name

\* (variant: valid entries are collected with unshift, last declared first)
RECURSIVE ValidatedOf_Unshift(_)
ValidatedOf_Unshift(entries) ==
    IF entries = << >> THEN << >>
    ELSE LET e == Head(entries) IN
         ValidatedOf_Unshift(Tail(entries)) \o
         (IF IsValidEntry(e)
          THEN << [name |-> e.name, path |-> absolutePathOf(e)] >>
          ELSE << >>)

RECURSIVE ValidatedOf(_)
ValidatedOf(entries) ==
    IF entries = << >> THEN << >>
    ELSE LET e == Head(entries) IN
         (IF IsValidEntry(e)
          THEN << [name |-> e.name, path |-> absolutePathOf(e)] >>
          ELSE << >>) \o ValidatedOf(Tail(entries))

RECURSIVE InvalidOf(_)
InvalidOf(entries) ==
    IF entries = << >> THEN << >>
    ELSE LET e == Head(entries) IN
         (IF IsValidEntry(e) THEN << >> ELSE << e >>) \o InvalidOf(Tail(entries))

NamesOf(entries) == [k \in 1..Len(entries) |-> entries[k].name]

Validate ==
    /\ UNCHANGED <<parserVars, patcherVars, cliVars, awaitVars, listingVars,
                   earlierVars>>
    /\ pc = "start"
    /\ IF Len(config) = 0
       THEN /\ pc' = "done"
            /\ UNCHANGED <<validEntries, invalidEntries, resolvedEntries>>
       ELSE IF \E k \in 1..Len(config) :
                    /\ config[k].path # NoPath
                    /\ getPackageNameFromPath(absolutePathOf(config[k])) = Thrown
       THEN \* the loop has no try of its own
            /\ pc' = "threw"
            /\ UNCHANGED <<validEntries, invalidEntries, resolvedEntries>>
       ELSE /\ validEntries' = ValidatedOf(config)
            /\ invalidEntries' = InvalidOf(config)
            /\ resolvedEntries' = validEntries'
            /\ pc' = IF Len(invalidEntries') > 0 THEN "promptDiscover"
                     ELSE IF Len(resolvedEntries') = 0 THEN "done"
                     ELSE "list"
    /\ UNCHANGED <<pm, config, configFile, registry, foundPaths, patched,
                   globallyLinked, i, actions, log, run, prev>>

(***************************************************************************)
(* linker.ts: runLinker, step 2 (auto-discovery)                           *)
(***************************************************************************)
\* (variant: the search runs whatever the answer)
pcAfterDiscoverPrompt_AnswerIgnored(shouldDiscover) == "discover"

\* (variant: the resolvedEntries.length === 0 test is missing)
pcAfterDiscoverPrompt_NoEmptyTest(shouldDiscover) ==
    IF shouldDiscover THEN "discover" ELSE "list"

\* if (shouldDiscover) { search, patch, return }; else on to the
\* resolvedEntries.length === 0 test and the linking stage.
pcAfterDiscoverPrompt(shouldDiscover) ==
    IF shouldDiscover THEN "discover"
    ELSE IF Len(resolvedEntries) = 0 THEN "done"
    ELSE "list"

PromptDiscover ==
    /\ UNCHANGED <<parserVars, patcherVars, cliVars, awaitVars, listingVars,
                   earlierVars>>
    /\ pc = "promptDiscover"
    /\ \E shouldDiscover \in BOOLEAN :
        /\ log' = Append(log, Event("promptDiscover", 0, NoName, NoPath, << >>,
                                    shouldDiscover))
        /\ pc' = pcAfterDiscoverPrompt(shouldDiscover)
    /\ UNCHANGED <<pm, config, configFile, registry, validEntries,
                   invalidEntries, resolvedEntries, foundPaths, patched,
                   globallyLinked, i, actions, run, prev>>

HasKey(map, name) == \E k \in 1..Len(map) : map[k].name = name

\* (variant: every match is kept, a name found twice has two directories)
SetKey_Append(map, name, dir) == Append(map, [name |-> name, path |-> dir])

\* nameToPathMap[foundName] = dir: a new key goes last, an existing key keeps
\* its place and takes the new value.
SetKey(map, name, dir) ==
    IF HasKey(map, name)
    THEN [k \in 1..Len(map) |->
            IF map[k].name = name THEN [name |-> name, path |-> dir] ELSE map[k]]
    ELSE Append(map, [name |-> name, path |-> dir])

\* The loop of findPackagesInSearchRoot over the manifests the glob returned.
RECURSIVE nameToPathMapOf(_, _, _)
nameToPathMapOf(packageNames, dirs, map) ==
    IF dirs = << >> THEN map
    ELSE LET dir == Head(dirs)
             foundName == getPackageNameFromPath(dir)
         IN nameToPathMapOf(packageNames, Tail(dirs),
                IF foundName # NoName
                   /\ \E k \in 1..Len(packageNames) : packageNames[k] = foundName
                THEN SetKey(map, foundName, dir)
                ELSE map)

\* (variant: the search fails only when it found nothing at all)
missingNamesOf_OnlyIfNoneFound(packageNames, map) ==
    IF map = << >> THEN packageNames ELSE << >>

missingNamesOf(packageNames, map) ==
    SelectSeq(packageNames, LAMBDA x : ~HasKey(map, x))

Discover ==
    /\ UNCHANGED <<parserVars, patcherVars, cliVars, awaitVars, listingVars,
                   earlierVars>>
    /\ pc = "discover"
    /\ \E packageJsonDirs \in GlobResults :
        LET packageNames == NamesOf(invalidEntries)
            map == nameToPathMapOf(packageNames, packageJsonDirs, << >>)
            found == Len(missingNamesOf(packageNames, map)) = 0
        IN /\ log' = Append(log, [Event("glob", 0, NoName, NoPath, << >>, found)
                                   EXCEPT !.dirs = packageJsonDirs])
           /\ IF found
              THEN /\ foundPaths' = map
                   /\ pc' = "patch"
              ELSE /\ foundPaths' = foundPaths
                   /\ pc' = "exit1"
    /\ patched' = 0
    /\ UNCHANGED <<pm, config, configFile, registry, validEntries,
                   invalidEntries, resolvedEntries, globallyLinked, i, actions,
                   run, prev>>

\* config.ts updateConfigFile, on the entries of the file: every entry object
\* whose name is packageName gets newPath as its path.
updateConfigFile(file, packageName, newPath) ==
    [k \in 1..Len(file) |->
        IF file[k].name = packageName
        THEN [name |-> file[k].name, path |-> newPath]
        ELSE file[k]]

\* (variant: the return after the patch loop is missing)
pcAfterPatches_FallThrough == "list"

\* After the patch loop: the return that ends the run.
pcAfterPatches == "done"

\* (variant: updateConfigFile has no catch, a failure rejects runLinker)
afterUpdateConfigFile_Raising(ok, next) == IF ok THEN next ELSE "threw"

\* updateConfigFile catches and logs whatever fails in it: its caller goes
\* on where it would after a patch.
afterUpdateConfigFile(ok, next) == next

Patch ==
    /\ UNCHANGED <<parserVars, patcherVars, cliVars, awaitVars, listingVars,
                   earlierVars>>
    /\ pc = "patch"
    /\ patched < Len(foundPaths)
    /\ LET name == foundPaths[patched + 1].name
           foundPath == foundPaths[patched + 1].path
       IN \E ok \in BOOLEAN :
            /\ configFile' = IF ok THEN updateConfigFile(configFile, name, foundPath)
                             ELSE configFile
            /\ log' = Append(log, Event("updateConfigFile", 0, name, foundPath,
                                        << >>, ok))
            /\ resolvedEntries' = Append(resolvedEntries,
                                         [name |-> name, path |-> foundPath])
            /\ pc' = afterUpdateConfigFile(ok,
                        IF patched + 1 = Len(foundPaths) THEN pcAfterPatches
                        ELSE "patch")
    /\ patched' = patched + 1
    /\ UNCHANGED <<pm, config, registry, validEntries, invalidEntries,
                   foundPaths, globallyLinked, i, actions, run, prev>>

(***************************************************************************)
(* linker.ts: getGlobalLinkedPackages                                      *)
(***************************************************************************)
\* fs.realpath of the symlink the package manager keeps for a linked name.
realpath(linkTarget) == PathResolve1(linkTarget)

\* (variant: the pnpm listing is read as an object keyed by dependency, as
\* the earlier revision did, so the array of records yields nothing)
getGlobalLinkedPackages_PnpmEmpty(p, reg, ok) ==
    IF ~ok \/ p = "pnpm" THEN [n \in Names |-> NotLinked]
    ELSE [n \in Names |-> IF reg[n] = NotLinked THEN NotLinked
                          ELSE PathResolve1(reg[n])]

\* (variant: no catch, the failure of a listing command is not turned into
\* an empty Map and what the registry holds is used)
getGlobalLinkedPackages_FailureIgnored(p, reg, ok) ==
    IF p = "pnpm" THEN reg
    ELSE [n \in Names |-> IF reg[n] = NotLinked THEN NotLinked ELSE PathResolve1(reg[n])]

\* The Map the listing returns: for pnpm the path as the listing prints it,
\* for npm and yarn the real path of the link; empty when a command or the
\* parse fails (the catch).
getGlobalLinkedPackages(p, reg, ok) ==
    IF ~ok THEN [n \in Names |-> NotLinked]
    ELSE IF p = "pnpm" THEN reg
    ELSE [n \in Names |-> IF reg[n] = NotLinked THEN NotLinked ELSE realpath(reg[n])]

\* (variant: the earlier revision's listing reports no name)
getGlobalLinkedPackagesEarlier_NoneListed(p, reg, ok) == {}

\* The earlier revision's getGlobalLinkedPackages, on the same registry and
\* the same outcome of the listing: the Set of the names on the lines with
\* '->' for npm and yarn; for pnpm the keys of the dependencies of the
\* parsed document, which the array of records the later revision reads
\* does not have; empty when the command or the parse fails.
getGlobalLinkedPackagesEarlier(p, reg, ok) ==
    IF ~ok \/ p = "pnpm" THEN {}
    ELSE { n \in Names : reg[n] # NotLinked }

\* The earlier revision's listing command.
listCmdEarlier(p) ==
    IF p = "pnpm" THEN <<"pnpm", "list", "-g", "--depth=0", "--json">>
    ELSE <<"npm", "list", "-g", "--depth=0", "--link=true">>

\* getGlobalNodeModulesPath: the command that asks where the global
\* node_modules is, run before the listing for npm and yarn; pnpm's listing
\* needs none.
globalRootCmd(p) ==
    IF p = "pnpm" THEN << >>
    ELSE IF p = "yarn" THEN <<"yarn", "global", "dir">>
    ELSE <<"npm", "root", "-g">>

\* The listing command: pnpm's own, and for npm and yarn alike the one of
\* getNpmListLines.
listCmd(p) ==
    IF p = "pnpm" THEN <<"pnpm", "list", "-g", "--depth=0", "--long", "--json">>
    ELSE <<"npm", "list", "-g", "--depth=0", "--link=true">>

ListGlobal ==
    /\ UNCHANGED <<parserVars, patcherVars, cliVars, awaitVars, listingVars>>
    /\ pc = "list"
    /\ \E ok \in BOOLEAN :
        /\ globallyLinked' = getGlobalLinkedPackages(pm, registry, ok)
        /\ globallyLinkedEarlier' = getGlobalLinkedPackagesEarlier(pm, registry, ok)
        /\ log' = Append(log, Event("list", 0, NoName, NoPath, listCmd(pm), ok))
    /\ pc' = "loop"
    /\ i' = 1
    /\ UNCHANGED <<pm, config, configFile, registry, validEntries,
                   invalidEntries, resolvedEntries, foundPaths, patched,
                   actions, run, prev>>

(***************************************************************************)
(* The package manager: what a successful command does to the registry     *)
(***************************************************************************)
\* The global-link command run in directory cwd registers the name the
\* manifest of cwd declares as linked from cwd.
RegistryAfterLink(reg, cwd) ==
    IF getPackageNameFromPath(cwd) \in Names
    THEN [reg EXCEPT ![getPackageNameFromPath(cwd)] = cwd]
    ELSE reg

\* The global-unlink command removes the registration of the name.
RegistryAfterUnlink(reg, name) == [reg EXCEPT ![name] = NotLinked]

(***************************************************************************)
(* linker.ts: runLinker, step 3 (register global links)                    *)
(***************************************************************************)
\* (variant: the two paths are compared as written, without path.resolve)
LinkActionOf_RawCompare(existingPath, intendedPath) ==
    IF existingPath = NotLinked THEN "LinkFresh"
    ELSE IF existingPath = intendedPath THEN "AlreadyCorrect"
         ELSE "Conflict"

\* (variant: a registered name is always taken for a conflict)
LinkActionOf_NoCorrectCase(existingPath, intendedPath) ==
    IF existingPath = NotLinked THEN "LinkFresh" ELSE "Conflict"

\* The three-way branch of the loop on existingPath and intendedPath.
LinkActionOf(existingPath, intendedPath) ==
    IF existingPath = NotLinked THEN "LinkFresh"
    ELSE IF PathResolve1(existingPath) = PathResolve1(intendedPath)
         THEN "AlreadyCorrect"
         ELSE "Conflict"

\* (variant: the registry is looked up again for each entry)
existingPathOf_Requeried(entry) == getGlobalLinkedPackages(pm, registry, TRUE)[entry.name]

\* globallyLinked.get(entry.name)
existingPathOf(entry) == globallyLinked[entry.name]

\* (variant: the declared directory is not handed on, the link command runs
\* in the directory of the configuration)
intendedPathOf_ConfigDir(entry) == ConfigDir

\* const intendedPath = entry.path
intendedPathOf(entry) == entry.path

\* (variant: the answer to the relink prompt is not looked at)
pcAfterRelinkPrompt_AnswerIgnored(shouldRelink) == "unlink"

\* if (shouldRelink) { unlink; link } else { skip }
pcAfterRelinkPrompt(shouldRelink) == IF shouldRelink THEN "unlink" ELSE "loop"

\* (variant: the unlink has a try block of its own, the link runs regardless)
pcAfterUnlink_LinkRegardless(ok) == "relink"

\* (variant: the try has no catch, a failing unlink rejects runLinker)
pcAfterUnlink_Rethrown(ok) == IF ok THEN "relink" ELSE "threw"

\* The unlink and the link share one try block: a failing unlink skips the link.
pcAfterUnlink(ok) == IF ok THEN "relink" ELSE "loop"

InLoop == pc = "loop" /\ i <= Len(resolvedEntries)

entryAt == resolvedEntries[i]

LinkFreshStep ==
    /\ UNCHANGED <<parserVars, patcherVars, cliVars, awaitVars, listingVars,
                   earlierVars>>
    /\ InLoop
    /\ LinkActionOf(existingPathOf(entryAt), intendedPathOf(entryAt)) = "LinkFresh"
    /\ \E ok \in BOOLEAN :
        /\ log' = Append(log, Event("globalLink", i, entryAt.name,
                                    intendedPathOf(entryAt), globalLinkCmd(pm), ok))
        /\ registry' = IF ok THEN RegistryAfterLink(registry, intendedPathOf(entryAt))
                       ELSE registry
    /\ actions' = Append(actions, "LinkFresh")
    /\ i' = i + 1
    /\ UNCHANGED <<pm, config, configFile, pc, validEntries, invalidEntries,
                   resolvedEntries, foundPaths, patched, globallyLinked, run,
                   prev>>

AlreadyCorrectStep ==
    /\ UNCHANGED <<parserVars, patcherVars, cliVars, awaitVars, listingVars,
                   earlierVars>>
    /\ InLoop
    /\ LinkActionOf(existingPathOf(entryAt), intendedPathOf(entryAt)) = "AlreadyCorrect"
    /\ actions' = Append(actions, "AlreadyCorrect")
    /\ i' = i + 1
    /\ UNCHANGED <<pm, config, configFile, registry, pc, validEntries,
                   invalidEntries, resolvedEntries, foundPaths, patched,
                   globallyLinked, log, run, prev>>

ConflictPrompt ==
    /\ UNCHANGED <<parserVars, patcherVars, cliVars, awaitVars, listingVars,
                   earlierVars>>
    /\ InLoop
    /\ LinkActionOf(existingPathOf(entryAt), intendedPathOf(entryAt)) = "Conflict"
    /\ \E shouldRelink \in BOOLEAN :
        /\ log' = Append(log, Event("promptRelink", i, entryAt.name,
                                    intendedPathOf(entryAt), << >>, shouldRelink))
        /\ pc' = pcAfterRelinkPrompt(shouldRelink)
        /\ i' = IF pc' = "loop" THEN i + 1 ELSE i
    /\ actions' = Append(actions, "Conflict")
    /\ UNCHANGED <<pm, config, configFile, registry, validEntries,
                   invalidEntries, resolvedEntries, foundPaths, patched,
                   globallyLinked, run, prev>>

\* The try block of an approved relink: unlink, then link; a failing unlink
\* goes to the catch and the loop moves on.
Unlink ==
    /\ UNCHANGED <<parserVars, patcherVars, cliVars, awaitVars, listingVars,
                   earlierVars>>
    /\ pc = "unlink"
    /\ \E ok \in BOOLEAN :
        /\ log' = Append(log, Event("globalUnlink", i, entryAt.name, NoPath,
                                    globalUnlinkCmd(pm, entryAt.name), ok))
        /\ registry' = IF ok THEN RegistryAfterUnlink(registry, entryAt.name)
                       ELSE registry
        /\ pc' = pcAfterUnlink(ok)
        /\ i' = IF pc' = "loop" THEN i + 1 ELSE i
    /\ UNCHANGED <<pm, config, configFile, validEntries, invalidEntries,
                   resolvedEntries, foundPaths, patched, globallyLinked,
                   actions, run, prev>>

Relink ==
    /\ UNCHANGED <<parserVars, patcherVars, cliVars, awaitVars, listingVars,
                   earlierVars>>
    /\ pc = "relink"
    /\ \E ok \in BOOLEAN :
        /\ log' = Append(log, Event("globalLink", i, entryAt.name,
                                    intendedPathOf(entryAt), globalLinkCmd(pm), ok))
        /\ registry' = IF ok THEN RegistryAfterLink(registry, intendedPathOf(entryAt))
                       ELSE registry
    /\ pc' = "loop"
    /\ i' = i + 1
    /\ UNCHANGED <<pm, config, configFile, validEntries, invalidEntries,
                   resolvedEntries, foundPaths, patched, globallyLinked,
                   actions, run, prev>>

\* The loop of the earlier revision for one entry: a name the listing
\* reported is taken as linked, whatever it is linked from; any other entry
\* is linked from its path.  It has no prompt and no unlink.
earlierEntryOps(entry) ==
    IF entry.name \in globallyLinkedEarlier THEN << >> ELSE <<"globalLink">>

(***************************************************************************)
(* linker.ts: runLinker, step 4 (link into the project)                    *)
(***************************************************************************)
\* (variant: only the entries this run linked globally are linked into the
\* project)
packagesToLinkNames_OnlyLinkedNow ==
    NamesOf(SelectSeq(resolvedEntries,
                      LAMBDA e : \E k \in 1..Len(log) :
                                    log[k].op = "globalLink" /\ log[k].name = e.name))

packagesToLinkNames == NamesOf(resolvedEntries)

LocalLink ==
    /\ UNCHANGED <<parserVars, patcherVars, cliVars, awaitVars, listingVars,
                   earlierVars>>
    /\ pc = "loop"
    /\ i > Len(resolvedEntries)
    /\ \E ok \in BOOLEAN :
        log' = Append(log, [Event("localLink", 0, NoName, NoPath,
                                  localLinkCmd(pm, packagesToLinkNames), ok)
                            EXCEPT !.names = packagesToLinkNames])
    /\ pc' = "done"
    /\ UNCHANGED <<pm, config, configFile, registry, validEntries,
                   invalidEntries, resolvedEntries, foundPaths, patched,
                   globallyLinked, i, actions, run, prev>>

(***************************************************************************)
(* A second invocation of the tool on the same configuration: the first    *)
(* one has ended and has left the configuration file as it loaded it       *)
(***************************************************************************)
Ended == pc \in {"done", "exit1"}

\* What a run leaves behind for the next one to be compared with: whether it
\* listed the registry successfully, whether a relink prompt was declined,
\* whether a global-link or unlink command failed and whether a global-link
\* command succeeded.
RunSummary(l) ==
    [ran |-> TRUE,
     listed |-> \E k \in 1..Len(l) : l[k].op = "list" /\ l[k].ok,
     declined |-> \E k \in 1..Len(l) : l[k].op = "promptRelink" /\ ~l[k].ok,
     failed |-> \E k \in 1..Len(l) :
                    l[k].op \in {"globalLink", "globalUnlink"} /\ ~l[k].ok,
     linked |-> \E k \in 1..Len(l) : l[k].op = "globalLink" /\ l[k].ok]

Rerun ==
    /\ UNCHANGED <<parserVars, patcherVars, cliVars, awaitVars, listingVars>>
    /\ globallyLinkedEarlier' = {}
    /\ Ended
    /\ run = "first"
    /\ configFile = config
    /\ run' = "second"
    /\ prev' = RunSummary(log)
    /\ config' = configFile
    /\ pc' = "start"
    /\ validEntries' = << >>
    /\ invalidEntries' = << >>
    /\ resolvedEntries' = << >>
    /\ foundPaths' = << >>
    /\ patched' = 0
    /\ globallyLinked' = [n \in Names |-> NotLinked]
    /\ i' = 1
    /\ actions' = << >>
    /\ log' = << >>
    /\ UNCHANGED <<pm, configFile, registry>>

(***************************************************************************)
(* getNpmLinkList.ts: parseNpmLinkOutput.  Text is a sequence of           *)
(* characters; the box-drawing characters are written by their code point  *)
(***************************************************************************)
MaxLines == 2

BoxUpRight == "u2514"
BoxVertRight == "u251C"
BoxHoriz == "u2500"
TreeChars == {BoxUpRight, BoxVertRight, BoxHoriz}
WhiteSpace == {" ", "\t"}
Arrow == <<"-", ">">>

\* The directory `npm root -g` prints.
GlobalNodeModules == <<"/", "g", "lib", "node_modules">>

\* What a line of the tree can show: a tree prefix, a package (scoped or
\* not, or nothing), a version or none, and, for a linked package, the arrow
\* and the relative target of the link.
NoPkg == [scope |-> << >>, name |-> << >>]
Pkgs == { [scope |-> << >>, name |-> <<"n">>],
          [scope |-> <<"s">>, name |-> <<"n">>] }
Versions == { << >>, <<"1", ".", "2">> }
TreeMid == <<BoxVertRight, BoxHoriz, BoxHoriz, " ">>
TreeLast == <<BoxUpRight, BoxHoriz, BoxHoriz, " ">>
TargetT == <<".", "/", "t">>
TargetU == <<".", ".", "/", "u">>

Listing(t, p, v, a, g) ==
    [tree |-> t, pkg |-> p, version |-> v, arrow |-> a, target |-> g]

Listings ==
    \* linked packages, with and without a version
    { Listing(t, p, v, TRUE, TargetT) :
        t \in {TreeMid, TreeLast}, p \in Pkgs, v \in Versions }
    \* the same packages linked to another target
    \cup { Listing(TreeMid, p, <<"1", ".", "2">>, TRUE, TargetU) : p \in Pkgs }
    \* a line without a tree prefix
    \cup { Listing(<< >>, p, << >>, TRUE, TargetT) : p \in Pkgs }
    \* installed packages that are not links
    \cup { Listing(TreeMid, p, <<"1", ".", "2">>, FALSE, << >>) : p \in Pkgs }
    \* lines that show no package
    \cup { Listing(t, NoPkg, << >>, a, << >>) :
            t \in {<< >>, TreeLast}, a \in BOOLEAN }

\* The name of a package as the package manager writes it.
PkgName(p) ==
    IF p.scope = << >> THEN p.name ELSE <<"@">> \o p.scope \o <<"/">> \o p.name

\* The line npm prints for a listing: prefix, name@version, ' -> ', target.
LineOf(l) ==
    l.tree \o PkgName(l.pkg)
           \o (IF l.version = << >> THEN << >> ELSE <<"@">> \o l.version)
           \o (IF l.arrow THEN <<" ">> \o Arrow \o <<" ">> \o l.target ELSE << >>)

\* String.prototype.indexOf: the first position of sub in str, 0 when absent.
IndexOf(str, sub) ==
    LET hits == { k \in 1..(Len(str) + 1 - Len(sub)) :
                    SubSeq(str, k, k + Len(sub) - 1) = sub }
    IN IF hits = {} THEN 0 ELSE CHOOSE k \in hits : \A j \in hits : k <= j

includes(str, sub) == IndexOf(str, sub) # 0

\* str.split(sep)[0]
BeforeFirst(str, sep) ==
    IF includes(str, sep) THEN SubSeq(str, 1, IndexOf(str, sep) - 1) ELSE str

\* str.replace(/^[set]+/, '')
RECURSIVE StripLeading(_, _)
StripLeading(str, set) ==
    IF str # << >> /\ Head(str) \in set THEN StripLeading(Tail(str), set) ELSE str

RECURSIVE StripTrailing(_, _)
StripTrailing(str, set) ==
    IF str # << >> /\ str[Len(str)] \in set
    THEN StripTrailing(SubSeq(str, 1, Len(str) - 1), set)
    ELSE str

trim(str) == StripTrailing(StripLeading(str, WhiteSpace), WhiteSpace)

\* str.split('@'): the parts between the separators.
RECURSIVE split(_, _)
split(str, sep) ==
    IF includes(str, sep)
    THEN <<SubSeq(str, 1, IndexOf(str, sep) - 1)>>
         \o split(SubSeq(str, IndexOf(str, sep) + Len(sep), Len(str)), sep)
    ELSE <<str>>

\* (variant: lines without the arrow are not rejected)
isLinkLine_NoGate(line) == TRUE

\* Step 1: the gatekeeper.
isLinkLine(line) == includes(line, Arrow)

\* Steps 2 and 3: the identifier left of the arrow, without tree characters.
cleanIdentifier(line) ==
    trim(StripLeading(BeforeFirst(line, Arrow), TreeChars \cup WhiteSpace))

\* (variant: a scoped identifier is cut at its first '@' like an unscoped
\* one)
nameOf_ScopeCut(ident) == split(ident, <<"@">>)[1]

\* Step 4: the name, without the version.
nameOf(ident) ==
    IF ident # << >> /\ Head(ident) = "@"
    THEN LET parts == split(ident, <<"@">>)
         IN IF Len(parts) > 2 THEN <<"@">> \o parts[2] ELSE ident
    ELSE split(ident, <<"@">>)[1]

\* path.join(globalNodeModulesPath, name)
symlinkPathOf(globalNodeModulesPath, name) == <<globalNodeModulesPath, name>>

\* fs.realpath failed.
Broken == << >>

\* fs.realpath(symlinkPath): the real path the link leads to, Broken when the
\* link does not exist or leads nowhere.
realpathOf(fs, symlinkPath) ==
    IF symlinkPath \in DOMAIN fs /\ fs[symlinkPath] # Broken
    THEN realpath(fs[symlinkPath])
    ELSE Broken

\* (variant: a key that is already in the Map keeps its value)
MapSet_KeepFirst(map, key, value) ==
    IF key \in DOMAIN map /\ map[key] # NotLinked THEN map
    ELSE [k \in DOMAIN map \cup {key} |-> IF k = key THEN value ELSE map[k]]

\* Map.prototype.set
MapSet(map, key, value) ==
    [k \in DOMAIN map \cup {key} |-> IF k = key THEN value ELSE map[k]]

\* (variant: a failing resolution throws out of the loop and what was
\* collected is lost)
afterRealpath_Throwing(map, name, realPath) ==
    IF realPath = Broken THEN EmptyMap ELSE MapSet(map, name, realPath)

\* Step 5: the try around fs.realpath; the catch warns and keeps the map.
afterRealpath(map, name, realPath) ==
    IF realPath = Broken THEN map ELSE MapSet(map, name, realPath)

\* What the loop body does with one line.
outcomeOf(line, fs) ==
    IF ~isLinkLine(line) THEN [kind |-> "noArrow", name |-> << >>]
    ELSE IF cleanIdentifier(line) = << >> THEN [kind |-> "empty", name |-> << >>]
    ELSE LET name == nameOf(cleanIdentifier(line))
         IN IF name = << >> THEN [kind |-> "noName", name |-> << >>]
            ELSE IF realpathOf(fs, symlinkPathOf(GlobalNodeModules, name)) = Broken
                 THEN [kind |-> "warn", name |-> name]
                 ELSE [kind |-> "set", name |-> name]

\* The listing to parse: up to MaxLines lines of the tree, and for every
\* package a link under the global node_modules that resolves or not.
ParserInit ==
    /\ listed \in SeqsUpTo(Listings, MaxLines)
    /\ lines = [k \in 1..Len(listed) |-> LineOf(listed[k])]
    /\ symlinks \in [ { symlinkPathOf(GlobalNodeModules, PkgName(p)) : p \in Pkgs }
                        -> {Broken, DirA, <<"/", "w", "b", "..", "a">>} ]
    /\ lineNo = 1
    /\ linkedPackages = EmptyMap
    /\ outcomes = << >>

\* One turn of the for-of loop.
ParseLine ==
    /\ lineNo <= Len(lines)
    /\ LET line == lines[lineNo]
           out == outcomeOf(line, symlinks)
       IN /\ outcomes' = Append(outcomes, out)
          /\ linkedPackages' =
                IF out.kind \in {"set", "warn"}
                THEN afterRealpath(linkedPackages, out.name,
                        realpathOf(symlinks, symlinkPathOf(GlobalNodeModules, out.name)))
                ELSE linkedPackages
    /\ lineNo' = lineNo + 1
    /\ UNCHANGED <<listed, lines, symlinks, linkerVars, patcherVars, cliVars,
                   awaitVars, listingVars,
                   earlierVars>>

(***************************************************************************)
(* config.ts: updateConfigFile on the source text.  The source is the tree *)
(* recast parses, every node with the formatting it was written in; the    *)
(* properties are ObjectProperty nodes with an Identifier key, the kind    *)
(* the visitor looks for                                                   *)
(***************************************************************************)
StringLiteral(text, quote) ==
    [type |-> "StringLiteral", text |-> text, quote |-> quote, layout |-> "",
     comma |-> FALSE, props |-> << >>, elems |-> << >>]

\* Any other expression (an identifier, a number, a template literal).
Expression(text) ==
    [type |-> "Other", text |-> text, quote |-> "", layout |-> "",
     comma |-> FALSE, props |-> << >>, elems |-> << >>]

\* An object literal: written on one line with spaces ("inline"), on one
\* line without ("tight") or one property per line ("multiline"), with or
\* without a trailing comma.
ObjectExpression(layout, comma, props) ==
    [type |-> "ObjectExpression", text |-> "", quote |-> "", layout |-> layout,
     comma |-> comma, props |-> props, elems |-> << >>]

ArrayExpression(elems) ==
    [type |-> "ArrayExpression", text |-> "", quote |-> "", layout |-> "",
     comma |-> FALSE, props |-> << >>, elems |-> elems]

\* key: value, followed on its line by a comment or by none.
Property(key, value, comment) ==
    [key |-> key, value |-> value, comment |-> comment]

NoComment == ""
OldPath == "../old"
NewPaths == {"../new", OldPath}
PatchNames == {"a", "b", "c"}

\* The object literals a packages array is written with.
EntryObjects == {
    ObjectExpression("inline", FALSE,
        <<Property("name", StringLiteral("a", "'"), NoComment)>>),
    ObjectExpression("inline", FALSE,
        <<Property("name", StringLiteral("a", "'"), NoComment),
          Property("path", StringLiteral(OldPath, "'"), NoComment)>>),
    ObjectExpression("multiline", TRUE,
        <<Property("name", StringLiteral("a", "\""), "// the one we want"),
          Property("path", StringLiteral(OldPath, "\""), NoComment)>>),
    ObjectExpression("multiline", FALSE,
        <<Property("name", StringLiteral("b", "'"), NoComment)>>),
    ObjectExpression("tight", FALSE,
        <<Property("extra", Expression("1"), NoComment),
          Property("name", StringLiteral("a", "'"), NoComment),
          Property("other", Expression("2"), NoComment)>>),
    ObjectExpression("inline", FALSE,
        <<Property("path", Expression("dir"), NoComment),
          Property("name", StringLiteral("b", "'"), NoComment)>>),
    ObjectExpression("inline", FALSE,
        <<Property("name", Expression("a"), NoComment),
          Property("path", StringLiteral(OldPath, "'"), NoComment)>>),
    ObjectExpression("inline", FALSE,
        <<Property("name", StringLiteral("b", "'"), NoComment),
          Property("meta", ObjectExpression("inline", FALSE,
                <<Property("name", StringLiteral("a", "'"), NoComment),
                  Property("path", StringLiteral("./m", "'"), NoComment)>>),
             NoComment)>>),
    ObjectExpression("inline", FALSE,
        <<Property("name", StringLiteral("a", "'"), NoComment),
          Property("meta", ObjectExpression("inline", FALSE,
                <<Property("name", StringLiteral("a", "'"), NoComment)>>),
             NoComment)>>) }

\* The object the configuration exports, around its packages.
RootObject(withName, packages) ==
    ObjectExpression("multiline", TRUE,
        (IF withName
         THEN <<Property("name", StringLiteral("a", "'"), NoComment)>>
         ELSE << >>)
        \o <<Property("packageSearchRoot", StringLiteral("~/dev", "'"), "// Look here!"),
             Property("packages", ArrayExpression(packages), NoComment)>>)

Sources ==
    { RootObject(withName, packages) :
        withName \in BOOLEAN, packages \in SeqsUpTo(EntryObjects, MaxEntries) }

\* The first property of an object that is  name: '<packageName>'  with a
\* string literal value; 0 when there is none.
nameProperty(node, name) ==
    LET hits == { k \in 1..Len(node.props) :
                    /\ node.props[k].key = "name"
                    /\ node.props[k].value.type = "StringLiteral"
                    /\ node.props[k].value.text = name }
    IN IF hits = {} THEN 0 ELSE CHOOSE k \in hits : \A j \in hits : k <= j

\* (variant: the path property an object has is not looked for)
pathProperty_NotFound(node) == 0

\* The first property of an object whose key is path; 0 when there is none.
pathProperty(node) ==
    LET hits == { k \in 1..Len(node.props) : node.props[k].key = "path" }
    IN IF hits = {} THEN 0 ELSE CHOOSE k \in hits : \A j \in hits : k <= j

\* properties.splice(at, 0, prop)
Splice(props, at, prop) ==
    SubSeq(props, 1, at) \o <<prop>> \o SubSeq(props, at + 1, Len(props))

\* (variant: the new property is pushed at the end of the object)
insertIndex_Push(node, nameIndex) == Len(node.props)

\* Where the new path property goes: right after the name property.
insertIndex(node, nameIndex) == nameIndex

\* (variant: an object whose path value was replaced is printed anew)
layoutAfterOverwrite_Reprinted(node) == "multiline"

\* An object whose path value was replaced keeps the text it was written
\* with around the value.
layoutAfterOverwrite(node) == node.layout

\* The object literal found: its path value is replaced by a new string
\* literal, or a path property is spliced in after name.  The printer keeps
\* the text of an object whose property list is as parsed and prints an
\* object with a spliced list anew, one property per line.
patchObject(node, nameIndex, path) ==
    IF pathProperty(node) # 0
    THEN [node EXCEPT !.props[pathProperty(node)].value = StringLiteral(path, "'"),
                      !.layout = layoutAfterOverwrite(node)]
    ELSE [node EXCEPT
            !.props = Splice(node.props, insertIndex(node, nameIndex),
                             Property("path", StringLiteral(path, "'"), NoComment)),
            !.layout = "multiline",
            !.comma = FALSE]

\* recast.visit with visitObjectExpression: an object that has the name
\* property is patched and its children are not visited (return false);
\* any other node is traversed.
RECURSIVE visit(_, _, _)
visit(node, name, path) ==
    IF node.type = "ObjectExpression"
    THEN IF nameProperty(node, name) # 0
         THEN patchObject(node, nameProperty(node, name), path)
         ELSE [node EXCEPT !.props =
                [k \in 1..Len(node.props) |->
                    [node.props[k] EXCEPT !.value = visit(@, name, path)]]]
    ELSE IF node.type = "ArrayExpression"
    THEN [node EXCEPT !.elems =
            [k \in 1..Len(node.elems) |-> visit(node.elems[k], name, path)]]
    ELSE node

\* The children of a node, in source order.
childrenOf(node) ==
    IF node.type = "ObjectExpression"
    THEN [k \in 1..Len(node.props) |-> node.props[k].value]
    ELSE node.elems

\* The object literals the visitor patches, in the order it meets them.
RECURSIVE visited(_, _)
RECURSIVE visitedIn(_, _)
visited(node, name) ==
    IF node.type = "ObjectExpression" /\ nameProperty(node, name) # 0
    THEN <<node>>
    ELSE visitedIn(childrenOf(node), name)

visitedIn(nodes, name) ==
    IF nodes = << >> THEN << >>
    ELSE visited(Head(nodes), name) \o visitedIn(Tail(nodes), name)

\* (variant: the file is written whether or not an entry was found)
updated_Always(ast, name) == TRUE

\* The flag the visitor sets when it patches an object.
updated(ast, name) == visited(ast, name) # << >>

\* recast.print: the text of a node, as a sequence of pieces of text.
IndentText == <<"", "  ", "    ", "      ", "        ", "          ">>
Indent(depth) == IndentText[depth + 1]

RECURSIVE print(_, _)
RECURSIVE printProps(_, _, _, _, _)
RECURSIVE printElems(_, _)
print(node, depth) ==
    IF node.type = "StringLiteral" THEN <<node.quote, node.text, node.quote>>
    ELSE IF node.type = "Other" THEN <<node.text>>
    ELSE IF node.type = "ArrayExpression"
    THEN <<"[">> \o printElems(node.elems, depth + 1) \o <<"\n", Indent(depth), "]">>
    ELSE IF node.layout = "multiline"
    THEN <<"{">> \o printProps(node.props, 1, depth + 1, "multiline", node.comma)
                 \o <<"\n", Indent(depth), "}">>
    ELSE IF node.layout = "tight"
    THEN <<"{">> \o printProps(node.props, 1, depth, "tight", FALSE) \o <<"}">>
    ELSE <<"{", " ">> \o printProps(node.props, 1, depth, "inline", FALSE)
                     \o <<" ", "}">>

printProps(props, k, depth, layout, comma) ==
    IF k > Len(props) THEN << >>
    ELSE (IF layout = "multiline" THEN <<"\n", Indent(depth)>> ELSE << >>)
         \o <<props[k].key, ":">>
         \o (IF layout = "tight" THEN << >> ELSE <<" ">>)
         \o print(props[k].value, depth)
         \o (IF k < Len(props) \/ comma THEN <<",">> ELSE << >>)
         \o (IF layout = "inline" /\ k < Len(props) THEN <<" ">> ELSE << >>)
         \o (IF props[k].comment # NoComment THEN <<" ", props[k].comment>> ELSE << >>)
         \o printProps(props, k + 1, depth, layout, comma)

printElems(elems, depth) ==
    IF elems = << >> THEN << >>
    ELSE <<"\n", Indent(depth)>> \o print(Head(elems), depth) \o <<",">>
         \o printElems(Tail(elems), depth)

\* The text before and after the exported object.
Header == <<"// My amazing config file", "\n", "export default ">>
Footer == <<";", "\n">>

\* The text of the file that holds a source.
textOf(ast) == Header \o print(ast, 0) \o Footer

MaxCalls == 2

\* A configuration file and the arguments of the calls.
PatcherInit ==
    /\ original \in Sources
    /\ document = original
    /\ content = textOf(original)
    /\ patchName \in PatchNames
    /\ patchPath \in NewPaths
    /\ writes = 0
    /\ calls = 0

\* One call of updateConfigFile(filepath, patchName, patchPath): read,
\* parse, visit, and print and write when an object was patched; a failure
\* of the read, the parse or the write is caught and logged.
UpdateConfigFile ==
    /\ pc = "idle"
    /\ original # << >>
    /\ calls < MaxCalls
    /\ \E ok \in BOOLEAN :
        IF ok /\ updated(document, patchName)
        THEN /\ document' = visit(document, patchName, patchPath)
             /\ content' = textOf(document')
             /\ writes' = writes + 1
        ELSE UNCHANGED <<document, content, writes>>
    /\ calls' = calls + 1
    /\ UNCHANGED <<original, patchName, patchPath, linkerVars, parserVars,
                   cliVars, awaitVars, listingVars,
                   earlierVars>>

(***************************************************************************)
(* cli.ts: main, with loadConfig and promptAndCreateConfig of config.ts    *)
(***************************************************************************)
\* What explorer.search() can come to: a configuration file, none, or an
\* error (a file that cannot be loaded), which main's catch handles.
SearchResults == {"found", "none", "error"}

\* What promptAndCreateConfig can come to: the user declines, no package.json
\* is found upwards, the template is written, or writing it fails.
CreateOutcomes == {"declined", "noPackageJson", "written", "writeFailed"}

\* main, after loadConfig: runLinker with the configuration found, the catch
\* after an error, promptAndCreateConfig when there is no file.
pcAfterSearch(result) ==
    IF result = "found" THEN "start"
    ELSE IF result = "error" THEN "threw"
    ELSE "create"

LoadConfig ==
    /\ pc = "main"
    /\ \E result \in SearchResults :
        /\ pc' = pcAfterSearch(result)
        /\ loaded' = IF result = "none" THEN loaded ELSE result
    /\ UNCHANGED <<pm, config, configFile, registry, validEntries,
                   invalidEntries, resolvedEntries, foundPaths, patched,
                   globallyLinked, i, actions, log, run, prev, exitCode,
                   parserVars, patcherVars, awaitVars, listingVars,
                   earlierVars>>

\* loadConfig returns null whatever promptAndCreateConfig returned, and main
\* exits with 1 on a null.
pcAfterCreate(outcome) == "exit1"

PromptAndCreateConfig ==
    /\ pc = "create"
    /\ \E outcome \in CreateOutcomes :
        /\ loaded' = outcome
        /\ pc' = pcAfterCreate(outcome)
    /\ UNCHANGED <<pm, config, configFile, registry, validEntries,
                   invalidEntries, resolvedEntries, foundPaths, patched,
                   globallyLinked, i, actions, log, run, prev, exitCode,
                   parserVars, patcherVars, awaitVars, listingVars,
                   earlierVars>>

\* The exit code: process.exit(1) in main, in its catch and in
\* findPackagesInSearchRoot; 0 when main's promise resolves.
exitCodeOf(at) == IF at = "done" THEN 0 ELSE 1

ProcessExit ==
    /\ pc \in {"done", "exit1", "threw"}
    /\ exitCode' = exitCodeOf(pc)
    /\ pc' = "exited"
    /\ UNCHANGED <<pm, config, configFile, registry, validEntries,
                   invalidEntries, resolvedEntries, foundPaths, patched,
                   globallyLinked, i, actions, log, run, prev, loaded,
                   parserVars, patcherVars, awaitVars, listingVars,
                   earlierVars>>

(***************************************************************************)
(* Specifications                                                          *)
(***************************************************************************)
Next ==
    \/ Validate
    \/ PromptDiscover
    \/ Discover
    \/ Patch
    \/ ListGlobal
    \/ LinkFreshStep
    \/ AlreadyCorrectStep
    \/ ConflictPrompt
    \/ Unlink
    \/ Relink
    \/ LocalLink

\* One invocation of the tool.
Spec == Init /\ [][Next]_vars

NextTwice == Next \/ Rerun

\* Two invocations in succession; nothing but the tool's own commands
\* changes the registry or the configuration file.
SpecTwice == Init /\ [][NextTwice]_vars

\* runLinker is not running: the functions it is built from are called on
\* their own.
LinkerIdle ==
    /\ pm = "npm"
    /\ config = << >>
    /\ configFile = << >>
    /\ registry = [n \in Names |-> NotLinked]
    /\ pc = "idle"
    /\ validEntries = << >>
    /\ invalidEntries = << >>
    /\ resolvedEntries = << >>
    /\ foundPaths = << >>
    /\ patched = 0
    /\ globallyLinked = [n \in Names |-> NotLinked]
    /\ i = 1
    /\ actions = << >>
    /\ log = << >>
    /\ run = "first"
    /\ prev = NoRun

InitParse == LinkerIdle /\ ParserInit /\ PatcherIdle /\ CliIdle /\ AwaitIdle
    /\ ListingIdle
    /\ EarlierIdle

NextParse == ParseLine

\* One call of parseNpmLinkOutput on a listing.
SpecParse == InitParse /\ [][NextParse]_vars

InitCli ==
    /\ ParserIdle
    /\ PatcherIdle
    /\ CliIdle
    /\ AwaitIdle
    /\ ListingIdle
    /\ EarlierIdle
    /\ Installation
    /\ pc = "main"

NextCli ==
    \/ LoadConfig
    \/ PromptAndCreateConfig
    \/ Next
    \/ ProcessExit

\* The command line tool from its start to the end of the process.
SpecCli == InitCli /\ [][NextCli]_vars

InitPatch == LinkerIdle /\ ParserIdle /\ PatcherInit /\ CliIdle /\ AwaitIdle
    /\ ListingIdle
    /\ EarlierIdle

NextPatch == UpdateConfigFile

\* Calls of updateConfigFile on a configuration file.
SpecPatch == InitPatch /\ [][NextPatch]_vars

\* A run over a configuration whose directories hold manifests in every
\* state: missing, unreadable, not JSON, nameless, naming another package.
InitManifest ==
    /\ ParserIdle
    /\ PatcherIdle
    /\ CliIdle
    /\ AwaitIdle
    /\ ListingIdle
    /\ EarlierIdle
    /\ pm = "npm"
    /\ config \in SeqsUpTo(ManifestEntries, MaxEntries)
    /\ configFile = config
    /\ registry \in [Names -> {NotLinked, DirA2, DirB}]
    /\ \A n \in Names : registry[n] # NotLinked =>
            getPackageNameFromPath(PathResolve1(registry[n])) = n
    /\ pc = "start"
    /\ validEntries = << >>
    /\ invalidEntries = << >>
    /\ resolvedEntries = << >>
    /\ foundPaths = << >>
    /\ patched = 0
    /\ globallyLinked = [n \in Names |-> NotLinked]
    /\ i = 1
    /\ actions = << >>
    /\ log = << >>
    /\ run = "first"
    /\ prev = NoRun

SpecManifest == InitManifest /\ [][Next]_vars

(***************************************************************************)
(* A run followed await by await: starting an operation (a prompt, the     *)
(* search, a patch, the listing, a command) is a step of its own, and the  *)
(* actions of runLinker are what happens when the operation settles        *)
(***************************************************************************)
MaxOutstanding == 2

NoOperation == "none"

\* The operation runLinker starts next from where it stands.
nextOperation ==
    IF pc = "promptDiscover" THEN "promptDiscover"
    ELSE IF pc = "discover" THEN "glob"
    ELSE IF pc = "patch" THEN "updateConfigFile"
    ELSE IF pc = "list" THEN "list"
    ELSE IF pc = "unlink" THEN "globalUnlink"
    ELSE IF pc = "relink" THEN "globalLink"
    ELSE IF pc = "loop"
    THEN IF i > Len(resolvedEntries) THEN "localLink"
         ELSE LET action == LinkActionOf(existingPathOf(entryAt),
                                         intendedPathOf(entryAt))
              IN IF action = "LinkFresh" THEN "globalLink"
                 ELSE IF action = "Conflict" THEN "promptRelink"
                 ELSE NoOperation
    ELSE NoOperation

\* (variant: the promise of an operation is not awaited, the function goes
\* on while the operation runs)
awaited_FireAndForget == TRUE

\* await: the function is suspended until the operation it started has
\* settled, so every operation started before has settled.
awaited == Len(issued) = Len(log)

\* The call of prompts, glob, updateConfigFile or runCommand.
IssueOperation ==
    /\ nextOperation # NoOperation
    /\ awaited
    /\ Len(issued) < Len(log) + MaxOutstanding
    /\ issued' = Append(issued, nextOperation)
    /\ UNCHANGED <<linkerVars, parserVars, patcherVars, cliVars, listingVars,
                   earlierVars>>

\* The operation started settles (it succeeds or fails) and runLinker goes
\* on to its next await; a step without an operation needs none.
Settle ==
    /\ nextOperation # NoOperation => Len(issued) > Len(log)
    /\ Next

InitAwait == Init /\ pm = "npm"

NextAwait == IssueOperation \/ Settle

SpecAwait == InitAwait /\ [][NextAwait]_vars

(***************************************************************************)
(* linker.ts: getGlobalLinkedPackages, the pnpm branch, on what the        *)
(* listing command printed                                                 *)
(***************************************************************************)
MaxRecords == 2

\* A record of the listing: an object with or without a name and a path.
PnpmRecords ==
    { [type |-> "object", name |-> n, path |-> p] :
        n \in Names \cup {NoName}, p \in {NoPath, DirA, DirA2, DirB} }

\* What else the array can hold: null, or a value that is not an object.
PnpmElements ==
    PnpmRecords \cup { [type |-> "null", name |-> NoName, path |-> NoPath],
                       [type |-> "number", name |-> NoName, path |-> NoPath] }

\* What the command can print: nothing but white space, text that is not
\* JSON, a JSON object, or a JSON array.
PnpmDocuments ==
    { [kind |-> k, elems |-> << >>] : k \in {"blank", "notJson", "object"} }
    \cup { [kind |-> "array", elems |-> e] : e \in SeqsUpTo(PnpmElements, MaxRecords) }

\* What the try block comes to: a Map, or an exception.
Returns(map) == [threw |-> FALSE, map |-> map]
Throws == [threw |-> TRUE, map |-> [n \in Names |-> NotLinked]]

\* for (const pkg of pnpmList): the Map after the first k elements; reading
\* pkg.name of null throws.
RECURSIVE pnpmLoop(_, _)
pnpmLoop(elems, k) ==
    IF k = 0 THEN Returns([n \in Names |-> NotLinked])
    ELSE LET before == pnpmLoop(elems, k - 1)
             pkg == elems[k]
         IN IF before.threw \/ pkg.type = "null" THEN Throws
            ELSE IF pkg.name # NoName /\ pkg.path # NoPath
            THEN Returns(MapSet(before.map, pkg.name, pkg.path))
            ELSE before

\* The try block of the pnpm branch: the early return on blank output,
\* JSON.parse, the Array.isArray test and the loop.
pnpmListing(doc) ==
    IF doc.kind = "blank" THEN Returns([n \in Names |-> NotLinked])
    ELSE IF doc.kind = "notJson" THEN Throws
    ELSE IF doc.kind = "array" THEN pnpmLoop(doc.elems, Len(doc.elems))
    ELSE Returns([n \in Names |-> NotLinked])

\* (variant: no catch, the exception leaves getGlobalLinkedPackages)
caught_Rethrown(result) == result

\* The catch of getGlobalLinkedPackages: a warning and a new, empty Map.
caught(result) ==
    IF result.threw THEN Returns([n \in Names |-> NotLinked]) ELSE result

ListingInit ==
    /\ stdout \in PnpmDocuments
    /\ pnpmLinked = NotReturned

\* getGlobalLinkedPackages('pnpm') on the output stdout.
GetGlobalLinkedPackagesPnpm ==
    /\ stdout # NoDocument
    /\ pnpmLinked = NotReturned
    /\ pnpmLinked' = caught(pnpmListing(stdout))
    /\ UNCHANGED <<stdout, linkerVars, parserVars, patcherVars, cliVars,
                   awaitVars, earlierVars>>

InitPnpm == LinkerIdle /\ ParserIdle /\ PatcherIdle /\ CliIdle /\ AwaitIdle
    /\ ListingInit
    /\ EarlierIdle

NextPnpm == GetGlobalLinkedPackagesPnpm

SpecPnpm == InitPnpm /\ [][NextPnpm]_vars

(***************************************************************************)
(* Reading the log                                                         *)
(***************************************************************************)
Range(f) == { f[k] : k \in DOMAIN f }

\* The positions in the log of the events whose op is one of ops.
At(ops) == { k \in 1..Len(log) : log[k].op \in ops }

\* The positions of the events of kind ops issued for resolved entry idx.
AtFor(idx, ops) == { k \in At(ops) : log[k].idx = idx }

GlobalCommandOps == {"globalLink", "globalUnlink"}
LinkingOps == {"list", "promptRelink", "globalLink", "globalUnlink", "localLink"}

DiscoveryAccepted == \E k \in At({"promptDiscover"}) : log[k].ok
DiscoveryDeclined == \E k \in At({"promptDiscover"}) : ~log[k].ok

\* A directory among dirs has a manifest declaring name.
FoundUnderRoot(name, dirs) ==
    \E d \in 1..Len(dirs) : getPackageNameFromPath(dirs[d]) = name

InvalidNames == { invalidEntries[j].name : j \in 1..Len(invalidEntries) }

AllInvalidFound ==
    \E k \in At({"glob"}) : \A n \in InvalidNames : FoundUnderRoot(n, log[k].dirs)

SomeInvalidNotFound ==
    \E k \in At({"glob"}) : \E n \in InvalidNames : ~FoundUnderRoot(n, log[k].dirs)

(***************************************************************************)
(* C1..C10: discovery, reconciliation and ordering of one run              *)
(***************************************************************************)

\* C1: when some declared entry is invalid, the user accepts auto-discovery
\* and every invalid name is found, the run calls updateConfigFile once for
\* each discovered name and ends there: the registry is never listed and no
\* relink prompt, global-link, unlink or local-link command is issued, valid
\* entries included.
C1_DiscoveryEndsRun ==
    (DiscoveryAccepted /\ AllInvalidFound) =>
        /\ Len(invalidEntries) > 0
        /\ pc \in {"patch", "done"}
        /\ At(LinkingOps) = {}
        /\ pc = "done" =>
            /\ { log[k].name : k \in At({"updateConfigFile"}) } = InvalidNames
            /\ Cardinality(At({"updateConfigFile"})) = Cardinality(InvalidNames)
            /\ \A k \in At({"updateConfigFile"}) :
                    getPackageNameFromPath(log[k].path) = log[k].name

\* C1 witness: a discovery run has ended although valid entries were waiting.
C1_Witness ==
    /\ pc = "done"
    /\ DiscoveryAccepted
    /\ AllInvalidFound
    /\ Len(validEntries) > 0
    /\ At({"updateConfigFile"}) # {}

\* C2: when the user accepts auto-discovery and some requested name is not
\* found under the search root, the run exits with code 1 right after the
\* search and updateConfigFile is never called, also not for the names found;
\* the configuration file is as it was.
C2_DiscoveryExhaustionFatal ==
    (DiscoveryAccepted /\ SomeInvalidNotFound) =>
        /\ pc = "exit1"
        /\ At({"updateConfigFile"}) = {}
        /\ At(LinkingOps) = {}
        /\ configFile = config
        /\ log[Len(log)].op = "glob"

\* C2 witness: the run has exited with one requested name found and another not.
C2_Witness ==
    /\ pc = "exit1"
    /\ \E k \in At({"glob"}) :
        /\ \E n \in InvalidNames : FoundUnderRoot(n, log[k].dirs)
        /\ \E n \in InvalidNames : ~FoundUnderRoot(n, log[k].dirs)

\* Two resolved entries with one name resolve to one directory.
NoNameClash ==
    \A j, k \in 1..Len(resolvedEntries) :
        resolvedEntries[j].name = resolvedEntries[k].name
            => resolvedEntries[j].path = resolvedEntries[k].path

AllAlreadyCorrect == \A k \in 1..Len(actions) : actions[k] = "AlreadyCorrect"

DeclaredValid == SelectSeq(config, IsValidEntry)

\* C4: for every processed entry whose name the snapshot maps to a path E,
\* with intended path I, the action is AlreadyCorrect exactly when E and I
\* have the same normalized absolute form and Conflict otherwise; an
\* AlreadyCorrect entry gets no prompt, no unlink and no global-link.
C4_NormalizedComparison ==
    \A k \in 1..Len(actions) :
        LET E == globallyLinked[resolvedEntries[k].name]
            I == resolvedEntries[k].path
            same == NormalizeSegs(Tail(E), << >>) = NormalizeSegs(Tail(I), << >>)
        IN E # NotLinked =>
            /\ same => actions[k] = "AlreadyCorrect"
            /\ ~same => actions[k] = "Conflict"
            /\ actions[k] = "AlreadyCorrect" =>
                    AtFor(k, {"promptRelink", "globalUnlink", "globalLink"}) = {}

\* C4 witness: an entry was found AlreadyCorrect although the registered path
\* and the intended path differ as written (/w/b/../a against /w/a).
C4_Witness ==
    /\ pc = "done"
    /\ \E k \in 1..Len(actions) :
        /\ actions[k] = "AlreadyCorrect"
        /\ globallyLinked[resolvedEntries[k].name] # resolvedEntries[k].path

\* C5: for every processed entry whose name is absent from the snapshot,
\* exactly one global-link command was issued for it, in the entry's absolute
\* validated directory, with no relink prompt and no unlink; once the run has
\* ended the local-link command naming the entry comes after it.
C5_LinkFresh ==
    \A k \in 1..Len(actions) :
        LET e == resolvedEntries[k]
            valid == DeclaredValid
        IN
        globallyLinked[e.name] = NotLinked =>
            /\ actions[k] = "LinkFresh"
            /\ Cardinality(AtFor(k, {"globalLink"})) = 1
            /\ AtFor(k, {"promptRelink", "globalUnlink"}) = {}
            /\ \A g \in AtFor(k, {"globalLink"}) :
                /\ IsAbsolute(log[g].path)
                /\ getPackageNameFromPath(log[g].path) = e.name
                /\ k <= Len(valid)
                /\ valid[k].name = e.name
                /\ log[g].path = PathResolve(ConfigDir, valid[k].path)
                /\ pc = "done" =>
                        \E l \in At({"localLink"}) :
                            l > g /\ e.name \in Range(log[l].names)

\* C5 witness: a run has ended that linked afresh an entry declared with a
\* relative path.
C5_Witness ==
    /\ pc = "done"
    /\ \E k \in 1..Len(actions) :
        /\ actions[k] = "LinkFresh"
        /\ DeclaredValid[k].path # resolvedEntries[k].path
        /\ AtFor(k, {"globalLink"}) # {}

\* C6: when the relink prompt of a Conflict entry is declined, no unlink and
\* no global-link command is issued for that entry, the loop goes on to the
\* next entry, every entry is processed by the end of the run and the
\* local-link command then issued includes the entry's name.
C6_DeclinedConflict ==
    \A p \in At({"promptRelink"}) :
        ~log[p].ok =>
            LET k == log[p].idx IN
            /\ actions[k] = "Conflict"
            /\ AtFor(k, GlobalCommandOps) = {}
            /\ pc \in {"loop", "unlink", "relink", "done"}
            /\ i > k
            /\ pc = "done" =>
                /\ Len(actions) = Len(resolvedEntries)
                /\ \E l \in At({"localLink"}) :
                        l > p /\ resolvedEntries[k].name \in Range(log[l].names)

\* C6 witness: a run has ended in which a conflict was declined and a later
\* entry still got its global command.
C6_Witness ==
    /\ pc = "done"
    /\ \E p \in At({"promptRelink"}) :
        /\ ~log[p].ok
        /\ \E g \in At(GlobalCommandOps) : g > p /\ log[g].idx > log[p].idx

\* The entry at index k of resolvedEntries has been dealt with by the loop.
EntryFinished(k) == pc = "done" \/ (pc \in {"loop", "unlink", "relink"} /\ i > k)

\* C7 as stated: after an approved relink prompt the run issues, in this
\* order, the unlink for the entry's name, the global-link from the intended
\* path and, after both, the local-link naming the entry.
C7_ApprovedRelinkAlwaysLinks ==
    \A p \in At({"promptRelink"}) :
        (log[p].ok /\ pc = "done") =>
            LET k == log[p].idx IN
            \E u \in AtFor(k, {"globalUnlink"}) :
            \E g \in AtFor(k, {"globalLink"}) :
            \E l \in At({"localLink"}) :
                /\ p < u /\ u < g /\ g < l
                /\ log[u].cmd = globalUnlinkCmd(pm, resolvedEntries[k].name)
                /\ log[g].path = resolvedEntries[k].path
                /\ resolvedEntries[k].name \in Range(log[l].names)

\* C7 amended: after an approved relink prompt the run issues the unlink for
\* the entry's name; when that unlink succeeds the global-link from the
\* intended path follows it, when it fails no global-link is issued for the
\* entry; the local-link naming the entry comes after them.
C7_ApprovedRelinkOrder ==
    \A p \in At({"promptRelink"}) :
        LET k == log[p].idx IN
        (log[p].ok /\ EntryFinished(k)) =>
            /\ Cardinality(AtFor(k, {"globalUnlink"})) = 1
            /\ \A u \in AtFor(k, {"globalUnlink"}) :
                /\ p < u
                /\ log[u].cmd = globalUnlinkCmd(pm, resolvedEntries[k].name)
                /\ log[u].ok =>
                    /\ Cardinality(AtFor(k, {"globalLink"})) = 1
                    /\ \A g \in AtFor(k, {"globalLink"}) :
                            u < g /\ log[g].path = resolvedEntries[k].path
                /\ ~log[u].ok => AtFor(k, {"globalLink"}) = {}
            /\ pc = "done" =>
                \E l \in At({"localLink"}) :
                    /\ \A c \in AtFor(k, GlobalCommandOps) : c < l
                    /\ resolvedEntries[k].name \in Range(log[l].names)

\* C7 witness: a run has ended after an approved relink whose unlink and
\* global-link both ran.
C7_Witness ==
    /\ pc = "done"
    /\ \E p \in At({"promptRelink"}) :
        /\ log[p].ok
        /\ \E u \in AtFor(log[p].idx, {"globalUnlink"}) : log[u].ok
        /\ \E g \in AtFor(log[p].idx, {"globalLink"}) : log[g].ok

ValidNames == { DeclaredValid[k].name : k \in 1..Len(DeclaredValid) }

\* The names a command of the log carries: the name an unlink removes, the
\* name of the package a global-link registers, the names a local-link lists.
CommandNames(k) ==
    IF log[k].op = "localLink" THEN Range(log[k].names) ELSE {log[k].name}

CommandOps == {"globalLink", "globalUnlink", "localLink"}

\* Declining discovery: no search, no patch, and the valid entries go through
\* the linking stage.
DeclinedRunLinksValid ==
    LET valid == DeclaredValid IN
    /\ At({"glob", "updateConfigFile"}) = {}
    /\ configFile = config
    /\ resolvedEntries = validEntries
    /\ NamesOf(resolvedEntries) = NamesOf(valid)
    /\ pc \in {"list", "loop", "unlink", "relink", "done"}
    /\ (pc = "done" /\ Len(valid) > 0) =>
        /\ Len(actions) = Len(valid)
        /\ \E l \in At({"localLink"}) : log[l].names = NamesOf(valid)

\* C8 as stated: when discovery is declined there is no search and no patch,
\* the name of an invalid entry appears in no global-link, unlink or
\* local-link command, and the valid entries are reconciled and linked.
C8_InvalidNameInNoCommand ==
    DiscoveryDeclined =>
        LET invalid == InvalidNames IN
        /\ DeclinedRunLinksValid
        /\ \A k \in At(CommandOps) : CommandNames(k) \cap invalid = {}

\* C8 amended: when discovery is declined there is no search and no patch;
\* no command is issued for an invalid entry, and its name appears in a
\* global-link, unlink or local-link command only when a valid entry declares
\* the same name; the valid entries are reconciled and linked in the same run.
C8_DeclinedDiscoveryExcludes ==
    DiscoveryDeclined =>
        LET valid == DeclaredValid
            validNames == ValidNames
        IN
        /\ DeclinedRunLinksValid
        /\ \A k \in At(CommandOps) : CommandNames(k) \subseteq validNames
        /\ \A k \in At(GlobalCommandOps \cup {"promptRelink"}) :
            /\ log[k].idx \in 1..Len(valid)
            /\ log[k].name = valid[log[k].idx].name

\* C8 witness: a run with discovery declined has linked its valid entries and
\* left out an invalid entry with a name no valid entry has.
C8_Witness ==
    /\ pc = "done"
    /\ DiscoveryDeclined
    /\ At({"globalLink"}) # {}
    /\ At({"localLink"}) # {}
    /\ InvalidNames \ ValidNames # {}

\* The run has entered the linking stage.
ReachedLinking == pc \in {"loop", "unlink", "relink"} \/ At({"localLink"}) # {}

\* C9 as stated: in every run the global registry is listed exactly once.
C9_ListedOnceInEveryRun ==
    Ended => Cardinality(At({"list"})) = 1

\* The listing happens once in a run that reaches the linking stage and not at
\* all in a run that does not, after the discovery prompt and before every
\* per-entry prompt and command; every entry's action is the one the snapshot
\* gives, whatever earlier commands have done to the registry.
ListedOnceBeforeEntries ==
    /\ Cardinality(At({"list"})) <= 1
    /\ ReachedLinking <=> Cardinality(At({"list"})) = 1
    /\ \A l \in At({"list"}) :
        /\ \A d \in At({"promptDiscover", "glob", "updateConfigFile"}) : d < l
        /\ \A c \in At({"promptRelink", "globalLink", "globalUnlink", "localLink"}) :
                l < c
    /\ \A k \in 1..Len(actions) :
        LET E == globallyLinked[resolvedEntries[k].name]
            I == resolvedEntries[k].path
        IN actions[k] =
            (IF E = NotLinked THEN "LinkFresh"
             ELSE IF PathResolve1(E) = PathResolve1(I) THEN "AlreadyCorrect"
             ELSE "Conflict")

\* A step of the linking loop leaves the snapshot as the listing returned it.
SnapshotKept ==
    (pc \in {"loop", "unlink", "relink"}) => (globallyLinked' = globallyLinked)

\* C9 amended: a run that reaches the linking stage lists the global registry
\* exactly once (a run that ends earlier does not list it), after the
\* discovery phase and never per entry: the snapshot does not change while
\* the entries are processed and every entry's action is decided from it.
C9_SnapshotOncePerRun ==
    /\ [] ListedOnceBeforeEntries
    /\ [][SnapshotKept]_vars

\* C9 witness: the second of two entries with one name was decided LinkFresh
\* from the snapshot after the first entry's link command had registered the
\* name.
C9_Witness ==
    /\ pc = "done"
    /\ Len(actions) = 2
    /\ resolvedEntries[1].name = resolvedEntries[2].name
    /\ actions[2] = "LinkFresh"
    /\ \E g \in AtFor(1, {"globalLink"}) : log[g].ok

\* C10: prompts and global commands come in the order the entries are
\* declared: an event for an entry never precedes an event for an entry
\* declared before it, the resolved entries are the valid declared entries in
\* declared order, and the local-link command lists their names in that order.
C10_DeclaredOrder ==
    LET valid == DeclaredValid
        perEntry == At(GlobalCommandOps \cup {"promptRelink"})
    IN
    /\ \A j, k \in perEntry : j < k => log[j].idx <= log[k].idx
    /\ ReachedLinking =>
        /\ Len(resolvedEntries) = Len(valid)
        /\ \A k \in 1..Len(resolvedEntries) :
            /\ resolvedEntries[k].name = valid[k].name
            /\ resolvedEntries[k].path = PathResolve(ConfigDir, valid[k].path)
        /\ \A k \in perEntry :
            /\ log[k].idx \in 1..Len(valid)
            /\ log[k].name = valid[log[k].idx].name
        /\ \A l \in At({"localLink"}) : log[l].names = NamesOf(valid)

\* C10 witness: a run has ended that issued a command for b and then one for
\* a, b being declared before a.
C10_Witness ==
    /\ pc = "done"
    /\ NamesOf(DeclaredValid) = <<"b", "a">>
    /\ \E j, k \in At(GlobalCommandOps \cup {"promptRelink"}) :
            j < k /\ log[j].idx = 1 /\ log[k].idx = 2
    /\ \E l \in At({"localLink"}) : log[l].names = <<"b", "a">>

\* C11: a run that reaches the linking stage issues the local-link command
\* exactly once, as the last thing it does, after every resolved entry has had
\* its global action (LinkFresh, AlreadyCorrect, relink or skipped conflict),
\* and the command names the whole resolved set; a run that does not reach
\* the linking stage issues none.
C11_LocalLinkOnce ==
    LET valid == DeclaredValid
        local == At({"localLink"})
    IN
    /\ Cardinality(local) <= 1
    /\ (pc = "done" /\ At({"list"}) # {}) => Cardinality(local) = 1
    /\ \A l \in local :
        /\ At({"list"}) # {} /\ valid # << >>
        /\ l = Len(log) /\ pc = "done"
        /\ Len(actions) = Len(valid)
        /\ \A k \in 1..Len(valid) :
                actions[k] = "LinkFresh" => AtFor(k, {"globalLink"}) # {}
        /\ log[l].names = NamesOf(valid)
        /\ log[l].cmd = localLinkCmd(pm, NamesOf(valid))

\* C11 witness: a run has ended with one local-link command naming two
\* entries, one of them a conflict the user declined and the other not a
\* conflict.
C11_Witness ==
    /\ pc = "done"
    /\ Len(actions) = 2
    /\ \E k \in 1..2 : actions[k] = "Conflict"
                        /\ \E q \in AtFor(k, {"promptRelink"}) : ~log[q].ok
    /\ \E k \in 1..2 : actions[k] # "Conflict"
    /\ \E l \in At({"localLink"}) : Len(log[l].names) = 2

\* C12: when the registry listing fails, the run is not aborted: the snapshot
\* is the empty map, every resolved entry is treated as LinkFresh with one
\* global-link command each, no relink prompt and no unlink, and the run ends
\* with the local-link command.
C12_ListingFailureDegrades ==
    LET failedList == { k \in At({"list"}) : ~log[k].ok }
    IN failedList # {} =>
        /\ pc # "exit1"
        /\ \A n \in Names : globallyLinked[n] = NotLinked
        /\ At({"promptRelink", "globalUnlink"}) = {}
        /\ \A k \in 1..Len(actions) :
            /\ actions[k] = "LinkFresh"
            /\ Cardinality(AtFor(k, {"globalLink"})) = 1
        /\ pc = "done" =>
            /\ Len(actions) = Len(resolvedEntries)
            /\ Cardinality(At({"localLink"})) = 1

\* C12 witness: a run has ended whose listing failed while the registry held
\* a link for the name of a resolved entry from another directory.
C12_Witness ==
    /\ pc = "done"
    /\ \E k \in At({"list"}) : ~log[k].ok
    /\ Len(actions) = 2
    /\ \E g \in AtFor(1, {"globalLink"}) : ~log[g].ok
    /\ registry[resolvedEntries[1].name] # NotLinked
    /\ PathResolve1(registry[resolvedEntries[1].name]) # resolvedEntries[1].path

(***************************************************************************)
(* parseNpmLinkOutput                                                      *)
(***************************************************************************)
\* The lines the loop has read so far.
LinesRead == 1..(lineNo - 1)

\* The lines read that show a linked package: an arrow and a name.
LinkLinesRead ==
    { k \in LinesRead : listed[k].arrow /\ listed[k].pkg # NoPkg }

Resolves(p) == symlinks[symlinkPathOf(GlobalNodeModules, PkgName(p))] # Broken

ParseReturned == pc = "idle" /\ lines # << >> /\ lineNo > Len(lines)

\* C13: a link that does not resolve leaves only its own name out: the loop
\* goes on to the next line with a warning, and every name read so far
\* whose link resolves is in the map.
C13_BrokenSymlinkSkipped ==
    /\ Len(outcomes) = lineNo - 1
    /\ \A k \in LinkLinesRead :
        IF Resolves(listed[k].pkg)
        THEN PkgName(listed[k].pkg) \in DOMAIN linkedPackages
        ELSE /\ PkgName(listed[k].pkg) \notin DOMAIN linkedPackages
             /\ outcomes[k].kind = "warn"

\* C13 witness: the call has returned a map holding the name of the first
\* line, the link of the second line's name being broken.
C13_Witness ==
    /\ ParseReturned
    /\ Len(lines) = 2
    /\ outcomes[1].kind = "set"
    /\ outcomes[2].kind = "warn"
    /\ DOMAIN linkedPackages = {outcomes[1].name}

\* C14: the name extracted from a line is the package's name, scope
\* included, without tree characters and without the version; in particular
\* '@scope/name@1.2.3' gives '@scope/name', 'name@1.2.3' gives 'name' and
\* 'name' gives 'name'.
C14_NameExtraction ==
    /\ \A k \in LinkLinesRead : outcomes[k].name = PkgName(listed[k].pkg)
    /\ nameOf(cleanIdentifier(<<"@", "s", "c", "o", "p", "e", "/", "n", "a", "m",
                                "e", "@", "1", ".", "2", ".", "3">>))
            = <<"@", "s", "c", "o", "p", "e", "/", "n", "a", "m", "e">>
    /\ nameOf(cleanIdentifier(<<"n", "a", "m", "e", "@", "1", ".", "2", ".", "3">>))
            = <<"n", "a", "m", "e">>
    /\ nameOf(cleanIdentifier(<<"n", "a", "m", "e">>)) = <<"n", "a", "m", "e">>

\* C14 witness: the call has read a scoped package with a tree prefix and a
\* version and an unscoped package without a version.
C14_Witness ==
    /\ ParseReturned
    /\ Len(lines) = 2
    /\ listed[1] = Listing(TreeMid, [scope |-> <<"s">>, name |-> <<"n">>],
                           <<"1", ".", "2">>, TRUE, TargetT)
    /\ outcomes[1].name = <<"@", "s", "/", "n">>
    /\ listed[2] = Listing(TreeLast, [scope |-> << >>, name |-> <<"n">>],
                           << >>, TRUE, TargetT)
    /\ outcomes[2].name = <<"n">>

\* C15: the map holds a name exactly when a line read so far has the arrow
\* and shows that name and the link join(globalNodeModulesPath, name)
\* resolves; its value is the real path of that link, whatever the target
\* printed after the arrow; a line without the arrow adds nothing.
C15_MapFromArrowLines ==
    /\ DOMAIN linkedPackages =
            { PkgName(listed[k].pkg) :
                k \in { j \in LinkLinesRead : Resolves(listed[j].pkg) } }
    /\ \A n \in DOMAIN linkedPackages :
            linkedPackages[n] =
                PathResolve1(symlinks[symlinkPathOf(GlobalNodeModules, n)])
    /\ \A k \in LinesRead : ~listed[k].arrow => outcomes[k].kind = "noArrow"

\* C15 witness: the call has returned a map with one name, read from a line
\* with the arrow, while another package whose link resolves was on a line
\* without the arrow.
C15_Witness ==
    /\ ParseReturned
    /\ Len(lines) = 2
    /\ ~listed[1].arrow /\ listed[1].pkg # NoPkg /\ Resolves(listed[1].pkg)
    /\ listed[2].arrow /\ listed[2].target = TargetU
    /\ DOMAIN linkedPackages = {PkgName(listed[2].pkg)}
    /\ symlinks[symlinkPathOf(GlobalNodeModules, PkgName(listed[2].pkg))]
            = <<"/", "w", "b", "..", "a">>
    /\ linkedPackages[PkgName(listed[2].pkg)] = DirA

(***************************************************************************)
(* updateConfigFile                                                        *)
(***************************************************************************)
\* Every object literal of a source, enclosing ones before nested ones.
RECURSIVE objectsOf(_)
RECURSIVE objectsIn(_)
objectsOf(node) ==
    (IF node.type = "ObjectExpression" THEN <<node>> ELSE << >>)
    \o objectsIn(childrenOf(node))

objectsIn(nodes) ==
    IF nodes = << >> THEN << >> ELSE objectsOf(Head(nodes)) \o objectsIn(Tail(nodes))

\* The object has a name field whose value is the literal string name.
HasLiteralName(obj, name) ==
    \E k \in 1..Len(obj.props) :
        /\ obj.props[k].key = "name"
        /\ obj.props[k].value.type = "StringLiteral"
        /\ obj.props[k].value.text = name

HasPathField(obj) == \E k \in 1..Len(obj.props) : obj.props[k].key = "path"

\* What an object literal is by itself: its formatting and its fields, the
\* object and array values it holds left aside.
Own(obj) ==
    [layout |-> obj.layout, comma |-> obj.comma,
     props |-> [k \in 1..Len(obj.props) |->
                    IF obj.props[k].value.type \in {"ObjectExpression", "ArrayExpression"}
                    THEN [obj.props[k] EXCEPT !.value = Expression("nested")]
                    ELSE obj.props[k]]]

\* The object literals of the original whose own text or fields the file
\* now has differently.
ChangedObjects ==
    LET o == objectsOf(original)
        d == objectsOf(document)
    IN { k \in 1..Len(o) : Own(o[k]) # Own(d[k]) }

NamedObjects ==
    LET o == objectsOf(original)
    IN { k \in 1..Len(o) : HasLiteralName(o[k], patchName) }

\* C16: when no object literal has a name field that is the literal string
\* packageName, updateConfigFile returns without writing the file and the
\* text of the file is as it was.
C16_NoEntryNoWrite ==
    (original # << >> /\ NamedObjects = {}) =>
        /\ writes = 0
        /\ content = textOf(original)
        /\ document = original

\* C16 witness: a call for 'a' has returned on a file whose only name field
\* with a is not a string literal, beside an entry for 'b' with a path.
C16_Witness ==
    /\ calls >= 1
    /\ patchName = "a"
    /\ NamedObjects = {}
    /\ \E k \in 1..Len(objectsOf(original)) :
        LET obj == objectsOf(original)[k]
        IN /\ HasPathField(obj)
           /\ \E j \in 1..Len(obj.props) :
                obj.props[j].key = "name" /\ obj.props[j].value = Expression("a")
    /\ \E k \in 1..Len(objectsOf(original)) :
        HasLiteralName(objectsOf(original)[k], "b")

\* The patch of one entry, as C17 describes it.
PatchedAsClaimed(old, new) ==
    LET n == CHOOSE k \in 1..Len(old.props) :
                /\ old.props[k].key = "name"
                /\ old.props[k].value.type = "StringLiteral"
                /\ old.props[k].value.text = patchName
                /\ \A j \in 1..(k - 1) :
                    ~(/\ old.props[j].key = "name"
                      /\ old.props[j].value.type = "StringLiteral"
                      /\ old.props[j].value.text = patchName)
    IN IF HasPathField(old)
       THEN /\ Len(new.props) = Len(old.props)
            /\ \A k \in 1..Len(old.props) :
                IF old.props[k].key = "path"
                   /\ \A j \in 1..(k - 1) : old.props[j].key # "path"
                THEN /\ new.props[k].key = "path"
                     /\ new.props[k].value.type = "StringLiteral"
                     /\ new.props[k].value.text = patchPath
                     /\ new.props[k].comment = old.props[k].comment
                ELSE new.props[k] = old.props[k]
       ELSE /\ Len(new.props) = Len(old.props) + 1
            /\ new.props[n + 1].key = "path"
            /\ new.props[n + 1].value.type = "StringLiteral"
            /\ new.props[n + 1].value.text = patchPath
            /\ \A k \in 1..n : new.props[k] = old.props[k]
            /\ \A k \in (n + 1)..Len(old.props) : new.props[k + 1] = old.props[k]

C18_ExactlyOneObjectChanged ==
    (calls = 1 /\ writes = 1) =>
        /\ Cardinality(ChangedObjects) <= 1
        /\ ChangedObjects \subseteq NamedObjects

\* The new text is the old text with one value replaced by the new path in
\* single quotes: the same before and after it, piece by piece.
ValueReplaced(old, new) ==
    \/ new = old
    \/ \E p \in 0..(Len(new) - 3) :
        LET q == p + 3 + (Len(old) - Len(new))
        IN /\ q > p
           /\ SubSeq(new, 1, p) = SubSeq(old, 1, p)
           /\ SubSeq(new, p + 1, p + 3) = <<"'", patchPath, "'">>
           /\ SubSeq(new, p + 4, Len(new)) = SubSeq(old, q + 1, Len(old))

\* The new text is the old text with a path field put in at one place.
FieldInserted(old, new) ==
    /\ Len(new) > Len(old)
    /\ \E p \in 0..Len(old) :
        LET q == p + (Len(new) - Len(old))
        IN /\ SubSeq(new, 1, p) = SubSeq(old, 1, p)
           /\ SubSeq(new, q + 1, Len(new)) = SubSeq(old, p + 1, Len(old))
           /\ \A k \in (p + 1)..q :
                new[k] \in {"path", ":", " ", ",", "\n", "'", patchPath}
                           \cup Range(IndentText)

OnlyPathValueDiffers(old, new) == ValueReplaced(old, new) \/ FieldInserted(old, new)

\* C19 as stated: after a patch the file is the original except for the
\* single changed or inserted path value, byte for byte.  It is read here
\* for a source in which one object literal only has the name.
C19_OnlyThePathValueChanges ==
    (calls = 1 /\ writes = 1 /\ Cardinality(NamedObjects) = 1) =>
        OnlyPathValueDiffers(textOf(original), content)

\* A source with the object literals the visitor patches left out.
RECURSIVE withoutPatched(_, _)
withoutPatched(node, name) ==
    IF node.type = "ObjectExpression"
    THEN IF HasLiteralName(node, name)
         THEN Expression("entry")
         ELSE [node EXCEPT !.props =
                [k \in 1..Len(node.props) |->
                    [node.props[k] EXCEPT !.value = withoutPatched(@, name)]]]
    ELSE IF node.type = "ArrayExpression"
    THEN [node EXCEPT !.elems =
            [k \in 1..Len(node.elems) |-> withoutPatched(node.elems[k], name)]]
    ELSE node

\* C19: the file holds the text of the source as patched; outside the
\* object literals that are patched that text is the original, byte for
\* byte; where only path values were overwritten, the text has the same
\* pieces as the original except for the new values, so also the comments
\* and the whitespace inside the patched entries are kept.  An entry that
\* gets a path field inserted is printed anew.
C19_PatchFidelity ==
    original # << >> =>
        /\ content = textOf(document)
        /\ textOf(withoutPatched(document, patchName))
                = textOf(withoutPatched(original, patchName))
        /\ \A k \in ChangedObjects :
            HasPathField(objectsOf(original)[k]) =>
                ValueReplaced(print(objectsOf(original)[k], 0),
                              print(objectsOf(document)[k], 0))
        /\ (Cardinality(ChangedObjects) = 1
            /\ \A k \in ChangedObjects : HasPathField(objectsOf(original)[k])) =>
                ValueReplaced(textOf(original), content)

\* C19 witness: a call has overwritten the path of a multi-line entry that
\* has a comment, double quotes and a trailing comma, beside an inline
\* entry for another package.
C19_Witness ==
    /\ writes = 1
    /\ Cardinality(ChangedObjects) = 1
    /\ \E k \in ChangedObjects :
        LET old == objectsOf(original)[k]
        IN /\ old.layout = "multiline" /\ old.comma
           /\ \E j \in 1..Len(old.props) : old.props[j].comment # NoComment
           /\ HasPathField(old)
    /\ \E k \in 1..Len(objectsOf(original)) :
        /\ k \notin ChangedObjects
        /\ objectsOf(original)[k].layout = "inline"
    /\ content # textOf(original)

(***************************************************************************)
(* main                                                                    *)
(***************************************************************************)
FatalDiscoveryFailure == \E k \in At({"glob"}) : ~log[k].ok

NoConfigFoundOrCreated == loaded \in {"declined", "noPackageJson", "writeFailed"}

UnexpectedError == loaded = "error"

\* C20: the process exits with 1 on a fatal discovery failure, when no
\* configuration is found or created, or on an unexpected error, and with 0
\* at every other end, the one after the missing configuration file was
\* created included.
C20_ExitCodes ==
    pc = "exited" =>
        exitCode = IF FatalDiscoveryFailure \/ NoConfigFoundOrCreated
                      \/ UnexpectedError
                   THEN 1 ELSE 0

(***************************************************************************)
(* C21..C30: resolved entries, discovery results, sequencing and failures  *)
(***************************************************************************)
\* The manifest the file system holds for a declared entry's directory can be
\* read and declares the entry's name.
DeclaresItsName(entry) ==
    /\ entry.path # NoPath
    /\ LET m == ManifestAt(PathResolve(ConfigDir, entry.path))
       IN m.exists /\ m.readable /\ m.parses /\ m.name = entry.name

\* C21: every entry the registry comparison is performed for, and every entry
\* a prompt or link command is issued for, is a resolved entry: its path is
\* absolute and the manifest in that directory declares exactly its name; the
\* entries of the linking stage are the declared entries with such a
\* manifest and no other, so an entry with a missing path, an unreadable
\* manifest or a mismatching name is not among them.
C21_OnlyResolvedEntriesCompared ==
    LET good == SelectSeq(config, DeclaresItsName)
        perEntry == At(GlobalCommandOps \cup {"promptRelink"})
    IN
    /\ \A k \in 1..Len(actions) :
        LET e == resolvedEntries[k]
            m == ManifestAt(e.path)
        IN /\ IsAbsolute(e.path)
           /\ m.exists /\ m.readable /\ m.parses /\ m.name = e.name
    /\ ReachedLinking =>
        /\ Len(resolvedEntries) = Len(good)
        /\ \A k \in 1..Len(good) :
            /\ resolvedEntries[k].name = good[k].name
            /\ resolvedEntries[k].path = PathResolve(ConfigDir, good[k].path)
    /\ \A k \in perEntry :
        /\ log[k].idx \in 1..Len(good)
        /\ log[k].name = good[log[k].idx].name
        /\ log[k].op = "globalLink" => ManifestAt(log[k].path).name = log[k].name
    /\ \A l \in At({"localLink"}) : log[l].names = NamesOf(good)

\* C21 witness: a run has ended that compared and linked one entry of a
\* configuration whose other entry has a manifest that is unreadable or
\* declares another name.
C21_Witness ==
    /\ pc = "done"
    /\ Len(config) = 2
    /\ Len(actions) = 1
    /\ At({"globalLink"}) # {}
    /\ \E j \in 1..2 :
        /\ config[j].path # NoPath
        /\ ManifestAt(PathResolve(ConfigDir, config[j].path)).exists
        /\ ~DeclaresItsName(config[j])
    /\ \E l \in At({"localLink"}) : Len(log[l].names) = 1

ManifestDirs == {DirA, DirA2, DirB, DirU, DirP, DirN, DirX}

\* C23: getPackageNameFromPath never throws; it returns null when the
\* manifest is missing, unreadable, not JSON or nameless and the declared
\* name otherwise; an entry whose directory gives null is put with the
\* invalid entries, validation goes through every declared entry and the run
\* is not aborted by it (only by a discovery that does not find a name).
C23_ManifestReadNeverThrows ==
    /\ \A dir \in ManifestDirs :
        LET m == ManifestAt(dir)
            r == getPackageNameFromPath(dir)
        IN /\ r # Thrown
           /\ (~m.exists \/ ~m.readable \/ ~m.parses \/ m.name = "") => r = NoName
           /\ (m.exists /\ m.readable /\ m.parses /\ m.name # "") => r = m.name
    /\ (pc # "start" /\ config # << >>) =>
        /\ Len(validEntries) + Len(invalidEntries) = Len(config)
        /\ \A j \in 1..Len(config) :
            (/\ config[j].path # NoPath
             /\ getPackageNameFromPath(PathResolve(ConfigDir, config[j].path)) = NoName)
            => config[j] \in Range(invalidEntries)
    /\ pc # "threw"
    /\ pc = "exit1" => \E g \in At({"glob"}) : ~log[g].ok

\* C23 witness: a run has ended that linked a valid entry although the
\* manifest of the other declared entry could not be read or parsed.
C23_Witness ==
    /\ pc = "done"
    /\ \E j \in 1..Len(config) :
        /\ config[j].path # NoPath
        /\ LET m == ManifestAt(PathResolve(ConfigDir, config[j].path))
           IN m.exists /\ (~m.readable \/ ~m.parses)
        /\ config[j] \in Range(invalidEntries)
    /\ \E g \in At({"globalLink"}) : log[g].ok
    /\ At({"localLink"}) # {}

\* C22: the working directory of every global-link command is the absolute
\* resolution, against the directory of the configuration file, of a path the
\* loaded configuration declares for an entry of that name; a run that
\* searched for packages issues no global-link command at all, so a path
\* found by discovery is not a link source in the run that found it.
C22_LinkSourcesFromLoadedConfig ==
    /\ \A g \in At({"globalLink"}) :
        \E j \in 1..Len(config) :
            /\ config[j].name = log[g].name
            /\ config[j].path # NoPath
            /\ log[g].path = PathResolve(ConfigDir, config[j].path)
    /\ At({"glob"}) # {} => At({"globalLink"}) = {}
    /\ foundPaths # << >> => At({"globalLink"}) = {}

\* C22 witness: a run has ended that declined discovery for an entry
\* without a path and linked another entry from the resolution of the
\* relative path the configuration declares for it.
C22_Witness ==
    /\ pc = "done"
    /\ DiscoveryDeclined
    /\ \E j \in 1..Len(config) : config[j].path = NoPath
    /\ \E g \in At({"globalLink"}) :
        \E j \in 1..Len(config) :
            /\ config[j].name = log[g].name
            /\ ~IsAbsolute(config[j].path)
            /\ log[g].ok
            /\ log[g].path = PathResolve(ConfigDir, config[j].path)

\* The first directory of the traversal whose manifest declares name.
FirstMatch(name, dirs) ==
    dirs[CHOOSE d \in 1..Len(dirs) :
            /\ ManifestAt(dirs[d]).name = name
            /\ \A e \in 1..(d - 1) : ManifestAt(dirs[e]).name # name]

\* C24: when several directories of the traversal declare a requested
\* name, a successful discovery maps the name to the first of them in
\* traversal order.
C24_FirstMatchWins ==
    \A g \in At({"glob"}) :
        log[g].ok =>
            \A k \in 1..Len(foundPaths) :
                foundPaths[k].path = FirstMatch(foundPaths[k].name, log[g].dirs)

\* C25: when discovery succeeds, the keys of the returned mapping are
\* exactly the requested names, each name has one directory, that directory
\* is one the traversal returned and its manifest declares the name.
C25_DiscoveryMapExact ==
    \A g \in At({"glob"}) :
        log[g].ok =>
            LET keys == { foundPaths[k].name : k \in 1..Len(foundPaths) }
            IN /\ keys = InvalidNames
               /\ Len(foundPaths) = Cardinality(keys)
               /\ \A k \in 1..Len(foundPaths) :
                    /\ foundPaths[k].path \in Range(log[g].dirs)
                    /\ ManifestAt(foundPaths[k].path).name = foundPaths[k].name

\* C25 witness: a discovery for the one name a has succeeded on a traversal
\* that returned two directories declaring a and one declaring b.
C25_Witness ==
    /\ InvalidNames = {"a"}
    /\ Len(foundPaths) = 1
    /\ \E g \in At({"glob"}) :
        /\ log[g].ok
        /\ Len(log[g].dirs) = 3

\* The place of the first invalid entry declared with name.
DeclaredAt(name) ==
    CHOOSE j \in 1..Len(invalidEntries) :
        /\ invalidEntries[j].name = name
        /\ \A h \in 1..(j - 1) : invalidEntries[h].name # name

\* C26: the calls of updateConfigFile come in the order the invalid entries
\* are declared in the configuration.
C26_PatchesInDeclaredOrder ==
    \A p, q \in At({"updateConfigFile"}) :
        p < q => DeclaredAt(log[p].name) < DeclaredAt(log[q].name)

\* The operations started and not yet settled.
Outstanding == SubSeq(issued, Len(log) + 1, Len(issued))

RegistryOps == {"list", "globalLink", "globalUnlink", "localLink"}

\* C27: a run never has two operations outstanding: a prompt, the search, a
\* patch, the listing or a command is started only when every operation
\* started before it has succeeded or failed, the operations settle in the
\* order they were started, and so no two commands act on the registry at
\* once.
C27_OneOperationAtATime ==
    /\ Len(log) <= Len(issued)
    /\ Len(Outstanding) <= 1
    /\ \A k \in 1..Len(log) : log[k].op = issued[k]
    /\ Cardinality({ k \in (Len(log) + 1)..Len(issued) :
                        issued[k] \in RegistryOps }) <= 1

\* C27 witness: a global-link command is outstanding, started after a
\* command of the entry before it had failed.
C27_Witness ==
    /\ Outstanding = <<"globalLink">>
    /\ i = 2
    /\ \E k \in AtFor(1, GlobalCommandOps) : ~log[k].ok
    /\ log[Len(log)].op \in GlobalCommandOps

\* The run was ended by process.exit(1) or by an exception.
Aborted == pc \in {"exit1", "threw"}

\* C28: a failing global-link or unlink command does not abort the run: the
\* loop goes on to the entries after it, and a run that has ended has given
\* every resolved entry its action and has issued, after the failed command,
\* the local-link command naming all resolved entries, the one whose command
\* failed included; a failing local-link command ends the run like a
\* successful one, nothing is raised.
C28_CommandFailureDoesNotAbort ==
    LET failed == { k \in At(GlobalCommandOps) : ~log[k].ok }
    IN
    /\ failed # {} =>
        /\ ~Aborted
        /\ pc = "done" =>
            /\ Len(actions) = Len(resolvedEntries)
            /\ \E l \in At({"localLink"}) :
                /\ log[l].names = NamesOf(resolvedEntries)
                /\ \A k \in failed :
                    /\ k < l
                    /\ log[k].name \in Range(log[l].names)
    /\ \A l \in At({"localLink"}) : pc = "done"

\* C28 witness: a run of two entries has ended in which a command of the
\* first entry failed, a command of the second entry was issued after it and
\* the local-link command failed too.
C28_Witness ==
    /\ pc = "done"
    /\ Len(resolvedEntries) = 2
    /\ \E k \in AtFor(1, GlobalCommandOps) :
        /\ ~log[k].ok
        /\ \E j \in AtFor(2, GlobalCommandOps) : k < j
    /\ \E l \in At({"localLink"}) : ~log[l].ok /\ Len(log[l].names) = 2

\* For an entry whose relink was approved, a global-link command comes only
\* after a successful unlink of that entry, and none after a failed one.
LinkOnlyAfterUnlinked ==
    \A p \in At({"promptRelink"}) :
        log[p].ok =>
            LET k == log[p].idx IN
            /\ \A g \in AtFor(k, {"globalLink"}) :
                \E u \in AtFor(k, {"globalUnlink"}) :
                    /\ p < u /\ u < g
                    /\ log[u].ok
                    /\ log[u].name = log[g].name
            /\ (\E u \in AtFor(k, {"globalUnlink"}) : ~log[u].ok) =>
                    AtFor(k, {"globalLink"}) = {}

\* A failing unlink leaves the registry as it was and ends the entry.
FailedUnlinkKeepsRegistration ==
    (/\ pc = "unlink"
     /\ Len(log') = Len(log) + 1
     /\ ~log'[Len(log')].ok)
    => /\ registry' = registry
       /\ pc' = "loop"
       /\ i' = i + 1

\* C29: in an approved relink the global-link command from the intended
\* path is issued only if the unlink command for the name succeeded; when
\* the unlink fails no global-link is issued for the entry and the
\* registration of the name is left as it was.
C29_RelinkOnlyAfterUnlink ==
    /\ [] LinkOnlyAfterUnlinked
    /\ [][FailedUnlinkKeepsRegistration]_vars

\* C29 witness: a run has ended in which the unlink of an approved relink
\* failed: no global-link was issued for the entry and the name is still
\* registered from a path other than the intended one.
C29_Witness ==
    /\ pc = "done"
    /\ \E p \in At({"promptRelink"}) :
        LET k == log[p].idx IN
        /\ log[p].ok
        /\ \E u \in AtFor(k, {"globalUnlink"}) : ~log[u].ok
        /\ AtFor(k, {"globalLink"}) = {}
        /\ registry[resolvedEntries[k].name] # NotLinked
        /\ PathResolve1(registry[resolvedEntries[k].name]) # resolvedEntries[k].path

\* The snapshot shows the entry linked from a path other than the intended.
SnapshotConflict(entry) ==
    /\ globallyLinked[entry.name] # NotLinked
    /\ PathResolve1(globallyLinked[entry.name]) # PathResolve1(entry.path)

\* C30: an unlink command is issued only for an entry the snapshot shows
\* linked from a path other than the intended one, and only after the yes
\* to that entry's relink prompt; an entry is prompted at most once, and only
\* when the snapshot shows such a conflict, never when the name is not
\* linked or is linked from the intended path.
C30_UnlinkOnlyAfterApproval ==
    /\ \A u \in At({"globalUnlink"}) :
        LET k == log[u].idx IN
        /\ SnapshotConflict(resolvedEntries[k])
        /\ log[u].name = resolvedEntries[k].name
        /\ \E p \in AtFor(k, {"promptRelink"}) : p < u /\ log[p].ok
        /\ Cardinality(AtFor(k, {"globalUnlink"})) = 1
    /\ \A p \in At({"promptRelink"}) :
        LET k == log[p].idx IN
        /\ SnapshotConflict(resolvedEntries[k])
        /\ actions[k] = "Conflict"
        /\ Cardinality(AtFor(k, {"promptRelink"})) = 1
    /\ \A k \in 1..Len(actions) :
        actions[k] # "Conflict" => AtFor(k, {"promptRelink", "globalUnlink"}) = {}

\* C30 witness: a run has ended with one entry already linked from the
\* intended path, for which there was no prompt, and one entry in conflict
\* that was unlinked after the user's yes.
C30_Witness ==
    /\ pc = "done"
    /\ \E k \in 1..Len(actions) :
        /\ actions[k] = "AlreadyCorrect"
        /\ globallyLinked[resolvedEntries[k].name] # resolvedEntries[k].path
    /\ \E u \in At({"globalUnlink"}) : log[u].ok

(***************************************************************************)
(* C31..C38: early returns, the patch, the listing and the two revisions   *)
(***************************************************************************)
\* C31: when the configuration declares no packages, or when every declared
\* entry is invalid and discovery is declined, the run returns without
\* listing the registry and without a relink prompt or a global-link, unlink
\* or local-link command; with no declared packages nothing at all is
\* prompted or issued.
C31_NothingToDoReturnsEarly ==
    /\ (Len(config) = 0 /\ pc # "start") => (pc = "done" /\ log = << >>)
    /\ (pc # "start" /\ Len(config) > 0 /\ validEntries = << >>
            /\ DiscoveryDeclined) =>
        /\ pc = "done"
        /\ Len(log) = 1
        /\ At(LinkingOps) = {}
        /\ resolvedEntries = << >>
        /\ configFile = config

\* C31 witness: a run over two invalid entries has returned after the user
\* declined discovery.
C31_Witness ==
    /\ pc = "done"
    /\ Len(config) = 2
    /\ Len(invalidEntries) = 2
    /\ DiscoveryDeclined

\* C32: updateConfigFile is called only with names of invalid entries and
\* the path of every entry that validated is, in the configuration file, the
\* path it was loaded with.
C32_ValidEntriesUntouched ==
    /\ \A p \in At({"updateConfigFile"}) : log[p].name \in InvalidNames
    /\ \A k \in 1..Len(config) :
        DeclaresItsName(config[k]) => configFile[k].path = config[k].path

\* The entries of the file after the successful patches among the first n
\* events of the log, each applied whole, in order.
RECURSIVE FileAfter(_, _)
FileAfter(file, n) ==
    IF n = 0 THEN file
    ELSE LET before == FileAfter(file, n - 1)
         IN IF log[n].op = "updateConfigFile" /\ log[n].ok
            THEN [k \in 1..Len(before) |->
                    IF before[k].name = log[n].name
                    THEN [name |-> before[k].name, path |-> log[n].path]
                    ELSE before[k]]
            ELSE before

\* C33: a failure in updateConfigFile does not reach runLinker: the file
\* holds the loaded entries with the successful patches applied whole and
\* nothing of a failed one, the remaining discovered names are still
\* patched, and the run ends as a successful discovery does, with no
\* listing and no link command.
C33_PatchFailureIsSwallowed ==
    LET patches == At({"updateConfigFile"})
    IN /\ configFile = FileAfter(config, Len(log))
       /\ patches # {} =>
            /\ pc \in {"patch", "done"}
            /\ patched = Cardinality(patches)
            /\ At(LinkingOps) = {}
            /\ \A p \in patches :
                LET nth == Cardinality({ q \in patches : q <= p })
                IN /\ log[p].name = foundPaths[nth].name
                   /\ log[p].path = foundPaths[nth].path
            /\ pc = "done" => patched = Len(foundPaths)

\* C33 witness: a discovery of two names has ended; the patch for the first
\* name failed, the patch for the second was made.
C33_Witness ==
    /\ pc = "done"
    /\ Len(foundPaths) = 2
    /\ \E p, q \in At({"updateConfigFile"}) :
        p < q /\ ~log[p].ok /\ log[q].ok
    /\ configFile # config

\* The number of path fields of an object literal.
PathFields(obj) == Cardinality({ k \in 1..Len(obj.props) : obj.props[k].key = "path" })

\* The object literals a patch for patchName reaches: those with the name
\* that are not inside another one with the name.
RECURSIVE ReachedFrom(_, _, _)
ReachedFrom(objs, k, inside) ==
    IF k > Len(objs) THEN {}
    ELSE LET named == HasLiteralName(objs[k], patchName)
             size == Len(objectsOf(objs[k]))
         IN (IF named /\ ~inside THEN {k} ELSE {})
            \cup { j \in ReachedFrom(objs, k + 1, inside \/ named) : j < k + size }
            \cup { j \in ReachedFrom(objs, k + size, inside) : TRUE }

Reached == ReachedFrom(objectsOf(original), 1, FALSE)

\* C34: patching is idempotent on the entry: after two patches with the
\* same name and path the file is what it was after one, every entry the
\* patch reaches has exactly one path field, with the new path, and its
\* other fields as after one patch; a second patch adds no second path.
C34_PatchIdempotent ==
    writes >= 1 =>
        LET once == visit(original, patchName, patchPath)
            o == objectsOf(original)
            d == objectsOf(document)
        IN /\ document = once
           /\ content = textOf(once)
           /\ visit(once, patchName, patchPath) = once
           /\ Len(d) = Len(o)
           /\ \A k \in Reached :
                /\ PathFields(d[k]) = 1
                /\ \E j \in 1..Len(d[k].props) :
                    /\ d[k].props[j].key = "path"
                    /\ d[k].props[j].value = StringLiteral(patchPath, "'")
                /\ Len(d[k].props) = Len(o[k].props) + (1 - PathFields(o[k]))
           /\ \A k \in 1..Len(d) \ Reached : PathFields(d[k]) = PathFields(o[k])

\* C34 witness: the file was written by two patches with the same name and
\* path; one entry of that name had no path field and another had one with
\* a different path.
C34_Witness ==
    /\ calls = 2
    /\ writes = 2
    /\ \E k \in Reached : PathFields(objectsOf(original)[k]) = 0
    /\ \E k \in Reached :
        LET obj == objectsOf(original)[k]
        IN PathFields(obj) = 1 /\ obj.props[pathProperty(obj)].value.text # patchPath

\* C36: every external command of a run belongs to the manager the run is
\* for: the listing command and the global-root command as well as the
\* global-link, unlink and local-link commands.
C36_CommandsOfTheManager ==
    /\ \A p \in 1..Len(log) :
        log[p].cmd # << >> => Head(log[p].cmd) = pm
    /\ At({"list"}) # {} =>
        (globalRootCmd(pm) = << >> \/ Head(globalRootCmd(pm)) = pm)

\* The elements of an array document that are records with both a name and
\* a path.
Complete(k) ==
    /\ stdout.elems[k].type = "object"
    /\ stdout.elems[k].name # NoName
    /\ stdout.elems[k].path # NoPath

\* The document is a sequence of records: an array without null.
IsSequenceOfRecords ==
    /\ stdout.kind = "array"
    /\ \A k \in 1..Len(stdout.elems) : stdout.elems[k].type # "null"

CommandOf(e) == [op |-> e.op, idx |-> e.idx, cmd |-> e.cmd, cwd |-> e.path]

\* The commands of the linking stage a run has issued, in order.
IssuedCommands ==
    LET sel == SelectSeq(log, LAMBDA e : e.op \in {"globalLink", "globalUnlink", "localLink"})
    IN [k \in 1..Len(sel) |-> CommandOf(sel[k])]

\* The action the snapshot gives for the k-th resolved entry.
DecisionOf(k) ==
    LET E == globallyLinked[resolvedEntries[k].name]
        I == resolvedEntries[k].path
    IN IF E = NotLinked THEN "LinkFresh"
       ELSE IF PathResolve1(E) = PathResolve1(I) THEN "AlreadyCorrect"
       ELSE "Conflict"

\* The user's answer to the relink prompt of the k-th entry.
Approved(k) == \E q \in AtFor(k, {"promptRelink"}) : log[q].ok

\* The unlink command of the k-th entry succeeded.
Unlinked(k) == \E q \in AtFor(k, {"globalUnlink"}) : log[q].ok

\* The commands for the k-th entry that follow from its action and the
\* answer; with outcomes, the link of an approved relink follows only a
\* successful unlink.
EntryCommands(k, withOutcomes) ==
    LET link == [op |-> "globalLink", idx |-> k, cmd |-> globalLinkCmd(pm),
                 cwd |-> resolvedEntries[k].path]
        unlink == [op |-> "globalUnlink", idx |-> k,
                   cmd |-> globalUnlinkCmd(pm, resolvedEntries[k].name),
                   cwd |-> NoPath]
    IN IF DecisionOf(k) = "LinkFresh" THEN <<link>>
       ELSE IF DecisionOf(k) = "AlreadyCorrect" \/ ~Approved(k) THEN << >>
       ELSE IF withOutcomes /\ ~Unlinked(k) THEN <<unlink>>
       ELSE <<unlink, link>>

RECURSIVE CommandsUpTo(_, _)
CommandsUpTo(k, withOutcomes) ==
    IF k = 0 THEN << >>
    ELSE CommandsUpTo(k - 1, withOutcomes) \o EntryCommands(k, withOutcomes)

\* The commands of a whole linking stage.
RunCommands(withOutcomes) ==
    CommandsUpTo(Len(resolvedEntries), withOutcomes)
    \o <<[op |-> "localLink", idx |-> 0,
          cmd |-> localLinkCmd(pm, NamesOf(resolvedEntries)), cwd |-> NoPath]>>

LinkingEnded == pc = "done" /\ At({"localLink"}) # {}

\* C37 as stated: the commands of a run are determined by the entries, the
\* snapshot and the answers alone.
C37_CommandsFromSnapshotAndAnswers ==
    LinkingEnded => IssuedCommands = RunCommands(FALSE)

\* C37 amended: every entry's action is computed once, from the entry and
\* the snapshot; the commands of a run are determined by the entries, the
\* snapshot, the answers and the outcome of each unlink command: after a
\* failed unlink the global-link of that entry is not issued.
C37_DeterministicReconciliation ==
    /\ Len(actions) <= Len(resolvedEntries)
    /\ \A k \in 1..Len(actions) : actions[k] = DecisionOf(k)
    /\ LinkingEnded =>
        /\ Len(actions) = Len(resolvedEntries)
        /\ IssuedCommands = RunCommands(TRUE)

\* C37 witness: two entries were in Conflict and both relinks approved; the
\* unlink of the first failed and the unlink of the second succeeded.
C37_Witness ==
    /\ LinkingEnded
    /\ Len(resolvedEntries) = 2
    /\ DecisionOf(1) = "Conflict" /\ DecisionOf(2) = "Conflict"
    /\ Approved(1) /\ Approved(2)
    /\ ~Unlinked(1) /\ Unlinked(2)

\* The prompts and commands the earlier revision issues in its linking
\* stage on the resolved entries of the run: its loop, then the local link.
RECURSIVE EarlierUpTo(_)
EarlierUpTo(k) ==
    IF k = 0 THEN << >>
    ELSE EarlierUpTo(k - 1)
         \o [j \in 1..Len(earlierEntryOps(resolvedEntries[k])) |->
                [op |-> earlierEntryOps(resolvedEntries[k])[j], idx |-> k,
                 cmd |-> globalLinkCmd(pm), cwd |-> resolvedEntries[k].path]]

EarlierRun ==
    EarlierUpTo(Len(resolvedEntries))
    \o <<[op |-> "localLink", idx |-> 0,
          cmd |-> localLinkCmd(pm, NamesOf(resolvedEntries)), cwd |-> NoPath]>>

\* The prompts and commands of the linking stage of the run, the listing
\* left aside.
LaterRun ==
    LET sel == SelectSeq(log, LAMBDA e : e.op \in {"promptRelink", "globalLink",
                                                  "globalUnlink", "localLink"})
    IN [k \in 1..Len(sel) |-> CommandOf(sel[k])]

NoConflict == \A k \in 1..Len(resolvedEntries) : DecisionOf(k) # "Conflict"

\* The two revisions read the same of the entries' names from the listing.
SameNamesListed ==
    \A k \in 1..Len(resolvedEntries) :
        resolvedEntries[k].name \in globallyLinkedEarlier
            <=> globallyLinked[resolvedEntries[k].name] # NotLinked

\* The commands the later revision lists the registry with.
listCommands(p) ==
    (IF globalRootCmd(p) = << >> THEN << >> ELSE <<globalRootCmd(p)>>) \o <<listCmd(p)>>

====
